---- MODULE Spec2Model ----
(***************************************************************************)
(* The IDAS time-stepping engine (src/idas/source/idas.c): IDASolve, its   *)
(* stop tests, IDAStep and the routines it calls, for a problem with one   *)
(* state component, at most one quadrature and one sensitivity.            *)
(*                                                                         *)
(* Reals are exact rationals <<numerator, denominator>>.  The user         *)
(* callbacks (res, rhsQ, resS, lsetup, lsolve) are the environment: their   *)
(* return values and the data they produce are drawn from small sets.      *)
(***************************************************************************)
EXTENDS Integers, Sequences, FiniteSets, TLC

(***************************************************************************)
(* Exact rational arithmetic.                                              *)
(***************************************************************************)
IAbs(n) == IF n < 0 THEN -n ELSE n

RECURSIVE GCD(_, _)
GCD(a, b) == IF b = 0 THEN a ELSE GCD(b, a % b)

Q(n, d) ==
  LET s == IF d < 0 THEN -1 ELSE 1
      g == GCD(IAbs(n), IAbs(d))
  IN  IF n = 0 THEN <<0, 1>> ELSE <<(s * n) \div g, (s * d) \div g>>

ZERO == <<0, 1>>
ONE == <<1, 1>>
TWO == <<2, 1>>
HALF == <<1, 2>>
QUARTER == <<1, 4>>
PT9 == <<9, 10>>
PT1 == <<1, 10>>
PT001 == <<1, 1000>>
PT0001 == <<1, 10000>>
HUNDRED == <<100, 1>>
TEN == <<10, 1>>

RAdd(a, b) ==
  LET g == GCD(a[2], b[2])
  IN  Q(a[1] * (b[2] \div g) + b[1] * (a[2] \div g), (a[2] \div g) * b[2])
RNeg(a) == <<-a[1], a[2]>>
RSub(a, b) == RAdd(a, RNeg(b))
RMul(a, b) ==
  LET g1 == GCD(IAbs(a[1]), b[2])
      g2 == GCD(IAbs(b[1]), a[2])
  IN  IF a[1] = 0 \/ b[1] = 0 THEN <<0, 1>>
      ELSE Q((a[1] \div g1) * (b[1] \div g2), (a[2] \div g2) * (b[2] \div g1))
RInv(a) == Q(a[2], a[1])
RDiv(a, b) == RMul(a, RInv(b))
\* comparison by continued fractions: -1, 0, 1 as a < b, a = b, a > b
RECURSIVE RCmp(_, _)
RCmp(a, b) ==
  LET fa == a[1] \div a[2]
      fb == b[1] \div b[2]
      ra == a[1] - fa * a[2]
      rb == b[1] - fb * b[2]
  IN  IF fa < fb THEN -1
      ELSE IF fa > fb THEN 1
      ELSE IF ra = 0 /\ rb = 0 THEN 0
      ELSE IF ra = 0 THEN -1
      ELSE IF rb = 0 THEN 1
      ELSE RCmp(<<b[2], rb>>, <<a[2], ra>>)
RLt(a, b) == RCmp(a, b) < 0
RLe(a, b) == RCmp(a, b) <= 0
RGt(a, b) == RLt(b, a)
RGe(a, b) == RLe(b, a)
ABS(a) == <<IAbs(a[1]), a[2]>>
MAX(a, b) == IF RGt(a, b) THEN a ELSE b
MIN(a, b) == IF RLt(a, b) THEN a ELSE b
RInt(n) == <<n, 1>>
Sgn(a) == IF a[1] > 0 THEN 1 ELSE IF a[1] < 0 THEN -1 ELSE 0
\* the tests a*b < 0, a*b > 0, a*b >= 0, decided from the signs of the factors
ProdNeg(a, b) == Sgn(a) * Sgn(b) < 0
ProdPos(a, b) == Sgn(a) * Sgn(b) > 0
ProdNonNeg(a, b) == Sgn(a) * Sgn(b) >= 0
IMin(a, b) == IF a < b THEN a ELSE b

RECURSIVE RPowInt(_, _)
RPowInt(a, n) == IF n <= 0 THEN ONE ELSE RMul(a, RPowInt(a, n - 1))

(***************************************************************************)
(* RPowerR(x, -1/n) for x > 0.  The thresholds the code compares the       *)
(* result with (2, 1, 1/2, 1/4 and their quotients by 0.9) are decided     *)
(* exactly; a result in (1,2) is 3/2, one above 2 is 2, one below 1 is      *)
(* rounded down to PowGrid.                                                *)
(***************************************************************************)
PowGrid == {<<1, 4>>, <<5, 18>>, <<1, 2>>, <<3, 4>>, <<9, 10>>, <<1, 1>>}

PowNegRoot(x, n) ==
  LET ok == {g \in PowGrid : RLe(x, RInv(RPowInt(g, n)))}
  IN  IF RLe(x, RInv(RPowInt(TWO, n))) THEN TWO
      ELSE IF RLt(x, ONE) THEN <<3, 2>>
      ELSE IF ok = {} THEN <<1, 8>>
      ELSE CHOOSE g \in ok : \A o \in ok : RLe(o, g)

(***************************************************************************)
(* Program constants.                                                      *)
(***************************************************************************)
EPCON == <<33, 100>>
XRATE == <<1, 4>>
PREDICT_AGAIN == 20
IDA_RES_RECVR == 1
IDA_LSETUP_RECVR == 2
IDA_LSOLVE_RECVR == 3
IDA_NCONV_RECVR == 4
IDA_CONSTR_RECVR == 5
ERROR_TEST_FAIL == 7
CONTINUE_STEPS == 99
UNSET == -1
LOWER == 1
RAISE == 2
MAINTAIN == 3
BAD_SWITCH == -99

\* IDASolve return values (ida.h, included by the source)
IDA_SUCCESS == 0
IDA_TSTOP_RETURN == 1
IDA_MEM_NULL == -1
IDA_ILL_INPUT == -2
IDA_NO_MALLOC == -3
IDA_TOO_MUCH_WORK == -4
IDA_TOO_MUCH_ACC == -5
IDA_ERR_FAIL == -6
IDA_CONV_FAIL == -7
IDA_LINIT_FAIL == -8
IDA_LSETUP_FAIL == -9
IDA_LSOLVE_FAIL == -10
IDA_RES_FAIL == -11
IDA_CONSTR_FAIL == -12
IDA_REP_RES_ERR == -13
IDA_BAD_T == -14
IDA_MEM_FAIL == -20  \* distinct from the others; its value is not used

IDA_NORMAL == "NORMAL"
IDA_ONE_STEP == "ONE_STEP"
IDA_NORMAL_TSTOP == "NORMAL_TSTOP"
IDA_ONE_STEP_TSTOP == "ONE_STEP_TSTOP"
IDA_SIMULTANEOUS == "SIMULTANEOUS"
IDA_STAGGERED == "STAGGERED"
IDA_STAGGERED1 == "STAGGERED1"
IDA_ONESENS == "ONESENS"
IDA_ALLSENS == "ALLSENS"

(***************************************************************************)
(* Bounds of the model.                                                    *)
(***************************************************************************)
MaxOrd == 3        \* largest index of the history arrays
MaxNst == 3        \* internal steps completed in one run
MaxCalls == 2      \* IDASolve calls in one run
MaxFails == 2      \* failed step attempts in one run
UroundInv == 1000  \* 1/uround: the unit roundoff, enlarged so that the fuzz is visible

Ord == 0..MaxOrd
uround == <<1, UroundInv>>
NoRet == CONTINUE_STEPS + 1  \* "IDASolve has not returned yet"
Unset == <<-1, 1>> \* a real that has not been assigned

(***************************************************************************)
(* The integrator memory (IDAMemRec), the arguments and locals of the      *)
(* running IDASolve / IDAStep call, and the position in the code.          *)
(***************************************************************************)
VARIABLES
  MallocDone, \* ida_MallocDone
  mallocRet,  \* what the last IDAMalloc call returned
  heap,       \* the blocks the integrator memory points to
  mem,        \* the allocation flags of IDAMemRec, and whether IDAFree has run
  p,          \* p[which]: the problem parameter the sensitivity is taken for
  dqin,       \* IDASensRes1DQ: its arguments and the fields of IDAMemRec it reads
  dq,         \* IDASensRes1DQ: its locals, work vectors and position
  dqlog,      \* history: the values of p[which] at which res has been evaluated
  gs,         \* the user's call of IDAGetSolution: its argument t and what it returned
  opt,        \* optional inputs and problem set-up, fixed after IDAMalloc
  SetupDone, nst, tn, hh, hused, kk, kused, knew, ns, phase,
  psi, alpha, beta, sigma, gamma, phi, phiQ, phiS,
  cj, cjold, cjratio, cjlast, rr, ewt, ewtQ, ewtS, ee, eeQ, eeS,
  forceSetup, tretp, epsNewt, toldel,
  pc, calls, tout, itask, nstloc, ret, tret, yret,
  saved_t, ck, est, estQ, estS, erk, erkm1, error_k, error_km1, ncf, nef, nflag,
  callSetup, pass,
  pre,        \* history: tn, psi, phi, phiQ, phiS when the current attempt began
  hist        \* history: what the run has done so far

dqVars == <<p, dqin, dq, dqlog>>
lifeVars == <<MallocDone, mallocRet, heap, mem, dqVars, gs>>
memRest == <<opt, SetupDone, nst, tn, hh, hused, kk, kused, knew, ns, phase,
             psi, alpha, beta, sigma, gamma, phi, phiQ, phiS,
             cj, cjold, cjratio, cjlast, rr, ewt, ewtQ, ewtS, ee, eeQ, eeS,
             forceSetup, tretp, epsNewt, toldel>>
memVars == <<lifeVars, opt, SetupDone, nst, tn, hh, hused, kk, kused, knew, ns, phase,
             psi, alpha, beta, sigma, gamma, phi, phiQ, phiS,
             cj, cjold, cjratio, cjlast, rr, ewt, ewtQ, ewtS, ee, eeQ, eeS,
             forceSetup, tretp, epsNewt, toldel>>
callVars == <<pc, calls, tout, itask, nstloc, ret, tret, yret>>
argVars == <<calls, tout, itask, nstloc, ret, tret, yret>>
stepVars == <<saved_t, ck, est, estQ, estS, erk, erkm1, error_k, error_km1, ncf, nef, nflag,
              callSetup, pass>>
vars == <<memVars, callVars, stepVars, pre, hist>>

\* accessors named as the fields of IDAMemRec
maxord == opt.maxord
mxstep == opt.mxstep
maxncf == opt.maxncf
maxnef == opt.maxnef
hmax_inv == opt.hmax_inv
hin == opt.hin
tstop == opt.tstop
tstopset == opt.tstopset
reltol == opt.reltol
abstol == opt.abstol
quad == opt.quad
sensi == opt.sensi
ism == opt.ism
iresS == opt.iresS
setupNonNull == opt.setupNonNull
constraints == opt.constraints
constraintsSet == opt.constraints # 0
\* IDAInitialSetup clears errconQ / errconS when quad / sensi is off, before any use
errconQ == opt.errconQ /\ opt.quad
errconS == opt.errconS /\ opt.sensi

(***************************************************************************)
(* IDACreate defaults followed by the IDASet* calls, IDAMalloc and the     *)
(* optional IDAQuadMalloc / IDASensMalloc of the run.                      *)
(***************************************************************************)
Opt0 ==
  [maxord |-> MaxOrd, mxstep |-> 2, maxncf |-> 2, maxnef |-> 3,
   hmax_inv |-> ZERO, hin |-> HALF, tstop |-> ZERO, tstopset |-> FALSE,
   reltol |-> ZERO, abstol |-> ONE, quad |-> FALSE, errconQ |-> FALSE,
   sensi |-> FALSE, ism |-> IDA_STAGGERED, errconS |-> TRUE,
   iresS |-> IDA_ONESENS, setupNonNull |-> TRUE, constraints |-> 0]

Configs ==
  {[Opt0 EXCEPT !.mxstep = m] : m \in {1, 2}}
  \cup {[Opt0 EXCEPT !.maxncf = 1], [Opt0 EXCEPT !.maxncf = 3, !.mxstep = 1]}
  \cup {[Opt0 EXCEPT !.maxnef = e] : e \in {1, 2, 3, 4}}
  \cup {[Opt0 EXCEPT !.hmax_inv = x] : x \in {ONE, <<4, 1>>}}
  \cup {[Opt0 EXCEPT !.hin = ZERO]}
  \cup {[Opt0 EXCEPT !.tstopset = TRUE, !.tstop = ts, !.mxstep = MaxNst] :
      ts \in {QUARTER, <<3, 2>>, <<-1, 1>>}}
  \cup {[Opt0 EXCEPT !.tstopset = TRUE, !.tstop = <<3, 2>>, !.maxord = 1]}
  \cup {[Opt0 EXCEPT !.reltol = ZERO, !.abstol = a] : a \in {ZERO, <<1, 2 * UroundInv>>}}
  \cup {[Opt0 EXCEPT !.reltol = ONE, !.abstol = ZERO]}
  \cup {[Opt0 EXCEPT !.quad = TRUE, !.errconQ = TRUE, !.mxstep = 1],
        [Opt0 EXCEPT !.quad = TRUE, !.errconQ = FALSE, !.mxstep = 1]}
  \cup {[Opt0 EXCEPT !.sensi = TRUE, !.ism = m] : m \in {IDA_SIMULTANEOUS, IDA_STAGGERED}}
  \cup {[Opt0 EXCEPT !.sensi = TRUE, !.ism = IDA_STAGGERED1, !.mxstep = 1]}
  \cup {[Opt0 EXCEPT !.sensi = TRUE, !.errconS = FALSE, !.mxstep = 1]}
  \cup {[Opt0 EXCEPT !.sensi = TRUE, !.ism = m, !.iresS = IDA_ALLSENS, !.mxstep = 1] :
      m \in {IDA_STAGGERED, IDA_STAGGERED1}}
  \cup {[Opt0 EXCEPT !.setupNonNull = FALSE]}
  \cup {[Opt0 EXCEPT !.constraints = c] : c \in {1, 2}}
  \cup {[Opt0 EXCEPT !.maxord = k, !.mxstep = MaxNst] : k \in 1..MaxOrd}

\* the problem: y(t0) = y0, y'(t0) = yp0, one quadrature, one sensitivity
t0 == ZERO
y0 == ONE
yp0 == <<-1, 1>>

Touts == {<<-1, 1>>, QUARTER, HALF, TWO}
Itasks == {IDA_NORMAL, IDA_ONE_STEP, IDA_NORMAL_TSTOP, IDA_ONE_STEP_TSTOP}
\* the calls a run makes: every tout and itask with the default options, a
\* far tout in the mode the option under study needs otherwise
OfferedTouts ==
  IF opt = Opt0 THEN Touts ELSE IF hin = ZERO THEN {<<-1, 1>>, TWO} ELSE {TWO}
OfferedTasks ==
  IF opt = Opt0 THEN Itasks
  ELSE IF tstopset /\ tstop = <<-1, 1>> THEN {IDA_NORMAL_TSTOP}
  ELSE IF tstopset THEN {IDA_NORMAL_TSTOP, IDA_ONE_STEP_TSTOP}
  ELSE {IDA_NORMAL}
NoVec == [kind |-> "none", t |-> ZERO]

(***************************************************************************)
(* The blocks of memory the integrator owns. A block stands for the group  *)
(* of vectors or arrays that are allocated and freed together:             *)
(*   vectors      IDAAllocVectors / IDAFreeVectors                         *)
(*   quadVectors  IDAQuadAllocVectors / IDAQuadFreeVectors                 *)
(*   sensVectors  tmpS3, ewtS, eeS, phiS of IDASensAllocVectors            *)
(*   yyS          yyS, ypS, deltaS (Simultaneous and Staggered)            *)
(*   yyS1         yyS1, ypS1, deltaS1 (Staggered1)                         *)
(*   ssS1, netfS1, ncfnS1, nniS1   the Staggered1 per-sensitivity arrays   *)
(*   abstolS      the sensitivity tolerances IDAInitialSetup allocates     *)
(*   IDA_mem      the IDAMemRec itself                                     *)
(* ptr is the pointer field: never assigned, pointing to a live block, or  *)
(* pointing to a block that has been freed. leaked: a live block was lost  *)
(* when the pointer was assigned again. bad: free was handed a pointer     *)
(* that does not point to a live block.                                    *)
(***************************************************************************)
Stgr1Arrays == {"ssS1", "netfS1", "ncfnS1", "nniS1"}
Blocks == {"IDA_mem", "vectors", "quadVectors", "sensVectors", "yyS", "yyS1", "abstolS"}
            \cup Stgr1Arrays
NoBlock == [ptr |-> "unset", leaked |-> FALSE, bad |-> FALSE]
Alloc(h, S) ==
  [b \in Blocks |-> IF b \in S
                    THEN [ptr |-> "valid", leaked |-> h[b].leaked \/ h[b].ptr = "valid",
                          bad |-> h[b].bad]
                    ELSE h[b]]
Release(h, S) ==
  [b \in Blocks |-> IF b \in S
                    THEN [ptr |-> "freed", leaked |-> h[b].leaked,
                          bad |-> h[b].bad \/ h[b].ptr # "valid"]
                    ELSE h[b]]
\* the run that exercises allocation and release: its tstop lies behind t0, so
\* that every IDASolve call ends in the checks of the first call
\* no corrector is running: the passes of its main loop, its calls of lsetup
\* that returned success, and the reason of the second pass
NoNls == [passes |-> 0, setups |-> 0, recov |-> FALSE]
NoGS == [pc |-> "off"]
AllocRun == opt.tstopset /\ opt.tstop = <<-1, 1>>

InitIDA ==
  /\ MallocDone = FALSE /\ mallocRet = NoRet /\ gs = NoGS
  /\ heap = [b \in Blocks |-> IF b = "IDA_mem" THEN Alloc([c \in Blocks |-> NoBlock], {b})[b]
                                ELSE NoBlock]
  /\ mem = [quadMallocDone |-> FALSE, sensMallocDone |-> FALSE, stgr1alloc |-> FALSE,
            abstolSalloc |-> TRUE, freed |-> FALSE, linits |-> 0, scalings |-> 0,
            \* a re-initialisation has written into vectors that are not allocated
            stale |-> FALSE]
  /\ opt \in Configs
  /\ SetupDone = FALSE /\ nst = 0 /\ tn = t0
  /\ hh = ZERO /\ hused = ZERO /\ kk = 0 /\ kused = 0 /\ knew = UNSET
  /\ ns = 0 /\ phase = 0
  /\ psi = [j \in Ord |-> ZERO] /\ alpha = [j \in Ord |-> ZERO]
  /\ beta = [j \in Ord |-> ZERO] /\ sigma = [j \in Ord |-> ZERO]
  /\ gamma = [j \in Ord |-> ZERO]
  /\ phi = [j \in Ord |-> IF j = 0 THEN y0 ELSE IF j = 1 THEN yp0 ELSE ZERO]
  /\ phiQ = [j \in Ord |-> ZERO]
  /\ phiS = [j \in Ord |-> IF j = 0 THEN ONE ELSE ZERO]
  /\ cj = ZERO /\ cjold = ZERO /\ cjratio = Unset /\ cjlast = ZERO /\ rr = Unset
  /\ ewt = ZERO /\ ewtQ = ZERO /\ ewtS = ZERO
  /\ ee = ZERO /\ eeQ = ZERO /\ eeS = ZERO
  /\ forceSetup = FALSE /\ tretp = ZERO /\ epsNewt = ZERO /\ toldel = ZERO
  /\ pc = "idle" /\ calls = 0 /\ tout = ZERO /\ itask = IDA_NORMAL
  /\ nstloc = 0 /\ ret = NoRet /\ tret = ZERO /\ yret = NoVec
  /\ saved_t = ZERO /\ ck = ZERO /\ est = Unset /\ estQ = Unset /\ estS = Unset /\ erk = ZERO /\ erkm1 = ZERO
  /\ error_k = ZERO /\ error_km1 = ZERO /\ ncf = 0 /\ nef = 0 /\ nflag = 0
  /\ callSetup = FALSE /\ pass = 0
  /\ pre = [tn |-> t0, kk |-> kk, psi |-> psi, phi |-> phi, phiQ |-> phiQ, phiS |-> phiS]
  /\ hist = [fails |-> 0, step |-> 0, cause |-> "none", val |-> 0, passed |-> {}, kinds |-> <<>>,
             nls |-> NoNls, lsbad |-> FALSE,
             hs |-> <<>>]

\* IDASensRes1DQ is not running
NoDQ == [pc |-> "off"]
DQIn0 == [plist |-> 0, rhomax |-> ZERO, pbar |-> ONE, yyS |-> ZERO, reltol |-> ZERO]

Init ==
  /\ InitIDA
  /\ p = ONE /\ dqin = DQIn0 /\ dq = NoDQ /\ dqlog = {}

(***************************************************************************)
(* Norms, error weights, interpolation.                                    *)
(***************************************************************************)
IDAWrmsNorm(x, w) == ABS(RMul(x, w))
IDAQuadWrmsNormUpdate(old_nrm, xQ, wQ) == MAX(old_nrm, IDAWrmsNorm(xQ, wQ))
IDASensWrmsNormUpdate(old_nrm, xS, wS) == MAX(old_nrm, IDAWrmsNorm(xS, wS))

\* IDAEwtSetSS: rtol*|y| + atol; the weights are not set unless it is positive
\* (IDAEwtSetUnchecked: a variant that inverts without the test)
EwtTol(ycur) == RAdd(RMul(reltol, ABS(ycur)), abstol)
IDAEwtSetUnchecked(ycur) == TRUE
IDAEwtSetOK(ycur) == RGt(EwtTol(ycur), ZERO)
IDAEwtSet(ycur) == RInv(EwtTol(ycur))

\* N_VConstrMask for one component: TRUE when the constraint c holds for y
N_VConstrMask(c, y) ==
  CASE c = 2 -> RGt(y, ZERO)
    [] c = 1 -> RGe(y, ZERO)
    [] c = -1 -> RLe(y, ZERO)
    [] c = -2 -> RLt(y, ZERO)
    [] OTHER -> TRUE

\* IDAGetSolution: the legality test on t, and the vector it writes
IDAGetSolutionAt(t, tcur, h) ==
  LET tfuzz == RMul(RMul(HUNDRED, uround), RAdd(tcur, h))
      tp == RSub(RSub(tcur, hused), tfuzz)
  IN  IF ProdNeg(RSub(t, tp), h) THEN IDA_BAD_T ELSE IDA_SUCCESS

IDAGetSolution(t) == IDAGetSolutionAt(t, tn, hh)

Interp(t) == [kind |-> "interp", t |-> t]
Stepped(t) == [kind |-> "step", t |-> t]

\* yret after a call of IDAGetSolution(t) whose return value is ignored
GetSolutionInto(t) == IF IDAGetSolution(t) = IDA_SUCCESS THEN Interp(t) ELSE yret

NearTstop == RLe(ABS(RSub(tn, tstop)),
                 RMul(RMul(HUNDRED, uround), RAdd(ABS(tn), ABS(hh))))
ClipToTstop(h) ==
  IF ProdPos(RSub(RAdd(tn, h), tstop), h) THEN RSub(tstop, tn) ELSE h

Out(code, h, t, tp, y) == [code |-> code, hh |-> h, tret |-> t, tretp |-> tp, yret |-> y]

(***************************************************************************)
(* IDAStopTest1: stop conditions on entry, for a call that is not the      *)
(* first.  tp is tretp, t is *tret.                                        *)
(***************************************************************************)
IDAStopTest1(to, task, tp, t) ==
  LET pastTout == ProdNonNeg(RSub(tn, to), hh)
      pastTretp == ProdPos(RSub(tn, tp), hh)
      pastTstop == ProdPos(RSub(tn, tstop), hh)
      normal ==
        IF to = tp THEN Out(IDA_SUCCESS, hh, to, to, yret)
        ELSE IF pastTout THEN
          IF IDAGetSolution(to) # IDA_SUCCESS THEN Out(IDA_ILL_INPUT, hh, t, tp, yret)
          ELSE Out(IDA_SUCCESS, hh, to, to, Interp(to))
        ELSE Out(CONTINUE_STEPS, hh, t, tp, yret)
      atTstop ==
        IF IDAGetSolution(tstop) # IDA_SUCCESS THEN Out(IDA_ILL_INPUT, hh, t, tp, yret)
        ELSE Out(IDA_TSTOP_RETURN, hh, tstop, tstop, Interp(tstop))
  IN  CASE task = IDA_NORMAL -> normal
        [] task = IDA_ONE_STEP ->
             IF pastTretp THEN Out(IDA_SUCCESS, hh, tn, tn, GetSolutionInto(tn))
             ELSE Out(CONTINUE_STEPS, hh, t, tp, yret)
        [] task = IDA_NORMAL_TSTOP ->
             IF pastTstop THEN Out(IDA_ILL_INPUT, hh, t, tp, yret)
             ELSE IF to = tp \/ pastTout THEN normal
             ELSE IF NearTstop THEN atTstop
             ELSE Out(CONTINUE_STEPS, ClipToTstop(hh), t, tp, yret)
        [] task = IDA_ONE_STEP_TSTOP ->
             IF pastTstop THEN Out(IDA_ILL_INPUT, hh, t, tp, yret)
             ELSE IF pastTretp THEN Out(IDA_SUCCESS, hh, tn, tn, GetSolutionInto(tn))
             ELSE IF NearTstop THEN atTstop
             ELSE Out(CONTINUE_STEPS, ClipToTstop(hh), t, tp, yret)

(***************************************************************************)
(* IDAStopTest2: stop conditions after a successful step.                  *)
(***************************************************************************)
\* the IDA_ONE_STEP case: return at tn, yret and ypret as the step left them;
\* and a variant of it that returns the interpolant at tout
OneStepReturnAtTout == Out(IDA_SUCCESS, hh, tout, tout, GetSolutionInto(tout))
OneStepReturn == Out(IDA_SUCCESS, hh, tn, tn, yret)

IDAStopTest2(to, task, tp, t) ==
  LET pastTout == ProdNonNeg(RSub(tn, to), hh)
      atTstop == Out(IDA_TSTOP_RETURN, hh, tstop, tstop, GetSolutionInto(tstop))
      atTout == Out(IDA_SUCCESS, hh, to, to, GetSolutionInto(to))
  IN  CASE task = IDA_NORMAL ->
             IF pastTout THEN atTout ELSE Out(CONTINUE_STEPS, hh, t, tp, yret)
        [] task = IDA_ONE_STEP -> OneStepReturn
        [] task = IDA_NORMAL_TSTOP ->
             IF NearTstop THEN atTstop
             ELSE IF pastTout THEN atTout
             ELSE Out(CONTINUE_STEPS, ClipToTstop(hh), t, tp, yret)
        [] task = IDA_ONE_STEP_TSTOP ->
             IF NearTstop THEN atTstop
             ELSE Out(IDA_SUCCESS, ClipToTstop(hh), tn, tn, yret)

IDAHandleFailure(sflag) ==
  IF sflag \in {IDA_ERR_FAIL, IDA_CONV_FAIL, IDA_LSETUP_FAIL, IDA_LSOLVE_FAIL,
                IDA_REP_RES_ERR, IDA_RES_FAIL, IDA_CONSTR_FAIL}
  THEN sflag ELSE BAD_SWITCH

(***************************************************************************)
(* IDAInitialSetup: the value it returns, with linit returning lin.        *)
(***************************************************************************)
IDAInitialSetup(lin) ==
  IF ~IDAEwtSetOK(phi[0]) THEN IDA_ILL_INPUT
  ELSE IF constraintsSet /\ ~N_VConstrMask(constraints, phi[0]) THEN IDA_ILL_INPUT
  ELSE IF quad /\ opt.errconQ /\ ~IDAEwtSetOK(phiQ[0]) THEN IDA_ILL_INPUT
  ELSE IF sensi /\ ism = IDA_STAGGERED1 /\ iresS = IDA_ALLSENS THEN IDA_ILL_INPUT
  ELSE IF sensi /\ ~IDAEwtSetOK(phiS[0]) THEN IDA_ILL_INPUT
  ELSE IF lin < 0 THEN IDA_LINIT_FAIL
  ELSE IDA_SUCCESS

\* IDASolve with itask = task calls IDAInitialSetup, which gets as far as linit
LinitCalled(task) ==
  /\ MallocDone /\ (task \in {IDA_NORMAL_TSTOP, IDA_ONE_STEP_TSTOP} => tstopset)
  /\ nst = 0 /\ ~SetupDone /\ IDAInitialSetup(0) = IDA_SUCCESS

\* IDAInitialSetup gets as far as the sensitivity tolerances
SetupSensTols ==
  /\ IDAEwtSetOK(phi[0]) /\ (~constraintsSet \/ N_VConstrMask(constraints, phi[0]))
  /\ ~(quad /\ opt.errconQ /\ ~IDAEwtSetOK(phiQ[0]))
  /\ sensi /\ ~(ism = IDA_STAGGERED1 /\ iresS = IDA_ALLSENS)

\* the weights IDAInitialSetup leaves behind; it stops at the first failure
SetupEwt == IF IDAEwtSetOK(phi[0]) THEN IDAEwtSet(phi[0]) ELSE ewt
SetupEwtQ ==
  IF IDAEwtSetOK(phi[0]) /\ (~constraintsSet \/ N_VConstrMask(constraints, phi[0]))
     /\ quad /\ opt.errconQ /\ IDAEwtSetOK(phiQ[0])
  THEN IDAEwtSet(phiQ[0]) ELSE ewtQ
SetupEwtS ==
  IF IDAEwtSetOK(phi[0]) /\ (~constraintsSet \/ N_VConstrMask(constraints, phi[0]))
     /\ ~(quad /\ opt.errconQ /\ ~IDAEwtSetOK(phiQ[0]))
     /\ sensi /\ ~(ism = IDA_STAGGERED1 /\ iresS = IDA_ALLSENS)
     /\ IDAEwtSetOK(phiS[0])
  THEN IDAEwtSet(phiS[0]) ELSE ewtS

(***************************************************************************)
(* The first-call block of IDASolve: the initial step size.                *)
(*   w, wQ, wS: the error weights; rq: the value rhsQ stored in phiQ[1].   *)
(***************************************************************************)
InitialStep(to, w, wQ, wS, rq) ==
  LET tdist == ABS(RSub(to, tn))
      h1 == RMul(PT001, tdist)
      n0 == IDAWrmsNorm(phi[1], w)
      n1 == IF errconQ THEN IDAQuadWrmsNormUpdate(n0, rq, wQ) ELSE n0
      ypnorm == IF errconS THEN IDASensWrmsNormUpdate(n1, phiS[1], wS) ELSE n1
      h2 == IF RGt(ypnorm, RDiv(HALF, h1)) THEN RDiv(HALF, ypnorm) ELSE h1
      h3 == IF hin # ZERO THEN hin ELSE IF RLt(to, tn) THEN RNeg(h2) ELSE h2
      rh == RMul(ABS(h3), hmax_inv)
  IN  IF RGt(rh, ONE) THEN RDiv(h3, rh) ELSE h3

RhsQVals == {ZERO, <<6, 1>>}
LinitRets == {0, -1}

\* a return that reports the requested time in *tret
ReturnAtTout(code, t, tp, y) ==
  /\ pc' = "idle" /\ ret' = code /\ tret' = tout /\ tretp' = tp /\ yret' = y

Return(code, t, tp, y) ==
  /\ pc' = "idle" /\ ret' = code /\ tret' = t /\ tretp' = tp /\ yret' = y

(***************************************************************************)
(* IDAMalloc: the argument checks and the allocation either fail, leaving  *)
(* the memory as it was, or the problem is set up. code is the outcome of  *)
(* the checks and of IDAAllocVectors. The run calls it before the first    *)
(* IDASolve, or not at all; the IDAQuadMalloc / IDASensMalloc calls of the *)
(* configuration follow it at once, so that opt keeps quad and sensi.      *)
(***************************************************************************)
MallocRets == {IDA_SUCCESS, IDA_ILL_INPUT, IDA_MEM_FAIL}

\* what IDASensAllocVectors allocates and IDASensFreeVectors frees under ism m
SensBlocks(m) == {"sensVectors"} \cup (IF m = IDA_STAGGERED1 THEN {"yyS1"} ELSE {"yyS"})
\* the blocks of a successful IDAQuadMalloc, and of a successful IDASensMalloc
QuadMallocBlocks == {"quadVectors"}
SensMallocBlocks(m) == SensBlocks(m) \cup (IF m = IDA_STAGGERED1 THEN Stgr1Arrays ELSE {})

IDAMalloc(code) ==
  /\ pc = "idle" /\ ~MallocDone /\ calls = 0
  /\ mallocRet' = code
  /\ IF code # IDA_SUCCESS THEN
       UNCHANGED <<MallocDone, heap, mem, tn, phi, nst, kused, hused, forceSetup, SetupDone>>
     ELSE
       /\ tn' = t0
       /\ forceSetup' = FALSE
       /\ phi' = [phi EXCEPT ![0] = y0, ![1] = yp0]
       /\ nst' = 0 /\ kused' = 0 /\ hused' = ZERO
       /\ SetupDone' = FALSE
       /\ MallocDone' = TRUE
       /\ heap' = Alloc(heap, {"vectors"}
                              \cup (IF quad THEN QuadMallocBlocks ELSE {})
                              \cup (IF sensi THEN SensMallocBlocks(ism) ELSE {}))
       /\ mem' = [mem EXCEPT !.quadMallocDone = quad, !.sensMallocDone = sensi, !.linits = 0, !.scalings = 0,
                             !.stgr1alloc = sensi /\ ism = IDA_STAGGERED1]
  /\ UNCHANGED <<opt, hh, kk, knew, ns, phase, psi, alpha, beta, sigma, gamma, phiQ, phiS,
                 cj, cjold, cjratio, cjlast, rr, ewt, ewtQ, ewtS, ee, eeQ, eeS,
                 tretp, epsNewt, toldel, callVars, stepVars, pre, hist, dqVars, gs>>

\* what an initialisation call leaves alone besides the fields it names
engineRest == <<hh, kk, knew, ns, phase, psi, alpha, beta, sigma, gamma,
                cj, cjold, cjratio, cjlast, rr, ewt, ewtQ, ewtS, ee, eeQ, eeS,
                tretp, epsNewt, toldel, callVars, stepVars, pre, hist>>
initRest == <<engineRest, dqVars, gs>>

(***************************************************************************)
(* IDAReInit on an allocated memory, with arguments that pass the checks.  *)
(* It switches quadratures and sensitivities off and allocates and frees   *)
(* nothing.                                                                *)
(***************************************************************************)
IDAReInit ==
  /\ pc = "idle" /\ AllocRun /\ MallocDone /\ ~mem.freed
  /\ tn' = t0
  /\ forceSetup' = FALSE
  /\ phi' = [phi EXCEPT ![0] = y0, ![1] = yp0]
  /\ nst' = 0 /\ kused' = 0 /\ hused' = ZERO
  /\ opt' = [opt EXCEPT !.quad = FALSE, !.sensi = FALSE]
  /\ SetupDone' = FALSE
  /\ mem' = [mem EXCEPT !.linits = 0, !.scalings = 0]
  /\ UNCHANGED <<MallocDone, mallocRet, heap, phiQ, phiS, initRest>>

(***************************************************************************)
(* IDAQuadMalloc (first call, the allocation succeeds) and IDAQuadReInit   *)
(* (after IDAQuadMalloc; before it, it returns IDA_NO_QUAD and changes     *)
(* nothing).                                                               *)
(***************************************************************************)
IDAQuadMalloc ==
  /\ pc = "idle" /\ AllocRun /\ MallocDone /\ ~mem.freed
  /\ ~mem.quadMallocDone
  /\ heap' = Alloc(heap, QuadMallocBlocks)
  /\ phiQ' = [phiQ EXCEPT ![0] = ZERO]
  /\ opt' = [opt EXCEPT !.quad = TRUE]
  /\ mem' = [mem EXCEPT !.quadMallocDone = TRUE]
  /\ UNCHANGED <<MallocDone, mallocRet, SetupDone, nst, tn, hused, kused, phi, phiS,
                 forceSetup, initRest>>

IDAQuadReInit ==
  /\ pc = "idle" /\ AllocRun /\ MallocDone /\ ~mem.freed
  /\ mem.quadMallocDone
  /\ phiQ' = [phiQ EXCEPT ![0] = ZERO]
  /\ opt' = [opt EXCEPT !.quad = TRUE]
  /\ mem' = [mem EXCEPT !.stale = @ \/ heap["quadVectors"].ptr # "valid"]
  /\ UNCHANGED <<MallocDone, mallocRet, heap, dqVars, gs, SetupDone, nst, tn, hused, kused,
                 phi, phiS, forceSetup, engineRest>>

(***************************************************************************)
(* IDASensMalloc (first call). ok: p, yS0 and ypS0 are given and           *)
(* IDASensAllocVectors succeeds; ism is stored before they are looked at.  *)
(***************************************************************************)
Isms == {IDA_SIMULTANEOUS, IDA_STAGGERED, IDA_STAGGERED1}

IDASensMalloc(newism, ok) ==
  /\ pc = "idle" /\ AllocRun /\ MallocDone /\ ~mem.freed
  /\ ~mem.sensMallocDone
  /\ IF ok THEN
       /\ heap' = Alloc(heap, SensMallocBlocks(newism))
       /\ mem' = [mem EXCEPT !.stgr1alloc = newism = IDA_STAGGERED1,
                             !.sensMallocDone = TRUE]
       /\ phiS' = [phiS EXCEPT ![0] = ONE, ![1] = ZERO]
       /\ opt' = [opt EXCEPT !.ism = newism, !.sensi = TRUE]
     ELSE
       /\ opt' = [opt EXCEPT !.ism = newism]
       /\ UNCHANGED <<heap, mem, phiS>>
  /\ UNCHANGED <<MallocDone, mallocRet, SetupDone, nst, tn, hused, kused, phi, phiQ,
                 forceSetup, initRest>>

(***************************************************************************)
(* IDASensReInit after IDASensMalloc (before it, it returns IDA_NO_SENS    *)
(* and changes nothing). ok: p, yS0 and ypS0 are given; ism is stored      *)
(* before they are looked at. A run that steps calls it between two        *)
(* IDASolve calls, with the all-at-once residual, to select Staggered1.    *)
(***************************************************************************)
OfferedIsms ==
  IF AllocRun THEN Isms
  ELSE IF iresS = IDA_ALLSENS /\ sensi /\ ism = IDA_STAGGERED THEN {IDA_STAGGERED1}
  ELSE {}

IDASensReInit(newism, ok) ==
  /\ pc = "idle" /\ MallocDone /\ ~mem.freed
  /\ mem.sensMallocDone
  /\ newism \in OfferedIsms
  /\ IF ok THEN
       LET arrays == newism = IDA_STAGGERED1 /\ ~mem.stgr1alloc
       IN  /\ heap' = IF arrays THEN Alloc(heap, Stgr1Arrays) ELSE heap
           /\ mem' = [mem EXCEPT !.stgr1alloc = @ \/ arrays,
                                 !.stale = @ \/ heap["sensVectors"].ptr # "valid"]
           /\ phiS' = [phiS EXCEPT ![0] = ONE, ![1] = ZERO]
           /\ opt' = [opt EXCEPT !.ism = newism, !.sensi = TRUE]
     ELSE
       /\ opt' = [opt EXCEPT !.ism = newism]
       /\ UNCHANGED <<heap, mem, phiS>>
  /\ UNCHANGED <<MallocDone, mallocRet, SetupDone, nst, tn, hused, kused, phi, phiQ,
                 forceSetup, initRest>>

(***************************************************************************)
(* IDAFree, called once on an allocated memory: IDAFreeVectors,            *)
(* IDAQuadFree, IDASensFree, then the record itself. No linear solver is   *)
(* attached (lfree is NULL). free(NULL) does nothing: abstolS is NULL      *)
(* until IDAInitialSetup allocates it.                                     *)
(***************************************************************************)
IDAQuadFree(h) == IF quad THEN Release(h, QuadMallocBlocks) ELSE h

IDASensFree(h) ==
  IF ~sensi THEN h
  ELSE LET h1 == IF mem.abstolSalloc /\ h["abstolS"].ptr # "unset"
                 THEN Release(h, {"abstolS"}) ELSE h
           h2 == IF mem.stgr1alloc THEN Release(h1, {"netfS1", "ncfnS1", "nniS1"}) ELSE h1
       IN  Release(h2, SensBlocks(ism))

\* IDAQuadFree and IDASensFree called by the user: the vectors are released
\* and quad / sensi switched off; quadMallocDone and sensMallocDone are kept
\* (the runs free one of the two, before the first call of IDASolve)
IDAQuadFreeCall ==
  /\ pc = "idle" /\ AllocRun /\ MallocDone /\ ~mem.freed /\ quad
  /\ calls = 0 /\ ~mem.sensMallocDone
  /\ heap' = IDAQuadFree(heap)
  /\ opt' = [opt EXCEPT !.quad = FALSE]
  /\ UNCHANGED <<MallocDone, mallocRet, mem, SetupDone, nst, tn, hused, kused, phi, phiQ, phiS,
                 forceSetup, initRest>>

IDASensFreeCall ==
  /\ pc = "idle" /\ AllocRun /\ MallocDone /\ ~mem.freed /\ sensi
  /\ calls = 0 /\ ~mem.quadMallocDone
  /\ heap' = IDASensFree(heap)
  /\ opt' = [opt EXCEPT !.sensi = FALSE]
  /\ UNCHANGED <<MallocDone, mallocRet, mem, SetupDone, nst, tn, hused, kused, phi, phiQ, phiS,
                 forceSetup, initRest>>

IDAFree ==
  /\ pc = "idle" /\ AllocRun /\ MallocDone /\ ~mem.freed
  /\ heap' = Release(IDASensFree(IDAQuadFree(Release(heap, {"vectors"}))), {"IDA_mem"})
  /\ mem' = [mem EXCEPT !.freed = TRUE]
  /\ UNCHANGED <<MallocDone, mallocRet, opt, SetupDone, nst, tn, hused, kused, phi, phiQ, phiS,
                 forceSetup, initRest>>

(***************************************************************************)
(* A request for a fresh setup. idas.c only clears and reads forceSetup;   *)
(* the flag is raised from outside the file, by the caller that owns the   *)
(* linear solver, between two calls of IDASolve. Before the first step a   *)
(* setup is made whatever the flag is, so that the request is followed     *)
(* once a step has been taken and another call can be made.                *)
(***************************************************************************)
SetForceSetup ==
  /\ pc = "idle" /\ MallocDone /\ ~mem.freed /\ setupNonNull /\ ~forceSetup
  /\ nst > 0 /\ calls < MaxCalls /\ opt = Opt0
  /\ forceSetup' = TRUE
  /\ UNCHANGED <<MallocDone, mallocRet, heap, mem, opt, SetupDone, nst, tn, hused, kused,
                 phi, phiQ, phiS, initRest>>

(***************************************************************************)
(* IDAGetSolution called by the user in a run with the default options,    *)
(* once its calls of IDASolve have been made and a step has been taken: t  *)
(* is the end of the last step, its beginning, its middle, or a time well  *)
(* before or well beyond the step, at a distance of |tn| + |hh| + 1.       *)
(***************************************************************************)
GSTimes ==
  LET far == RAdd(RAdd(ABS(tn), ABS(hh)), ONE)
      d == IF RLt(hh, ZERO) THEN RNeg(far) ELSE far
  IN  {tn, RSub(tn, hused), RSub(tn, RMul(HALF, hused)),
       RSub(RSub(tn, hused), d), RAdd(tn, d)}

IDAGetSolutionCall(t) ==
  /\ pc = "idle" /\ MallocDone /\ ~mem.freed /\ nst > 0 /\ calls = MaxCalls /\ gs = NoGS
  /\ opt = Opt0
  \* the vector of the call holds what the last IDASolve left in yret
  /\ gs' = [pc |-> "done", t |-> t, ret |-> IDAGetSolution(t), y |-> GetSolutionInto(t)]
  /\ UNCHANGED <<MallocDone, mallocRet, heap, mem, dqVars, memRest, pc, calls, tout, itask,
                 nstloc, ret, tret, yret, stepVars, pre, hist>>

(***************************************************************************)
(* IDASensRes1DQ: the residual of one sensitivity equation by difference   *)
(* quotients. The problem has one state and one parameter, with the        *)
(* residual F(t, y, y', p) = y' + p y; each call of res is a step, and ier *)
(* is the value the call returns. RSqrt is exact on the squares offered.   *)
(***************************************************************************)
CENTERED1 == 0
CENTERED2 == 1
FORWARD1 == 2
FORWARD2 == 3

ISqrt(n) == CHOOSE r \in 0..n : r * r <= n /\ (r + 1) * (r + 1) > n
RSqrt(x) == Q(ISqrt(x[1]), ISqrt(x[2]))

ResFn(y, yp, pp) == RAdd(yp, RMul(pp, y))
ResCallRets == {0, 1, -1}

\* plist: 0 stands for plist == NULL, otherwise plist[is]
DQInputs ==
  [plist : {0, 1, -1},
   rhomax : {ZERO, ONE, <<-1, 1>>, <<8, 1>>, <<-8, 1>>},
   pbar : {ONE, <<-2, 1>>},
   yyS : {ZERO, ONE, <<16, 1>>},
   reltol : {<<1, 16>>}]

InitDQ ==
  /\ InitIDA /\ opt = Opt0
  /\ p \in {ONE, TWO} /\ dqin \in DQInputs /\ dq = [pc |-> "entry"] /\ dqlog = {}

\* the arguments yy, yp, ypS, resval and the weights ewt of the call
DQyy == y0
DQyp == yp0
DQypS == ZERO
DQewt == ONE
DQresval(psave) == ResFn(DQyy, DQyp, psave)

DQFrame ==
  UNCHANGED <<MallocDone, mallocRet, heap, mem, opt, SetupDone, nst, tn, hused, kused,
              phi, phiQ, phiS, forceSetup, engineRest, dqin, gs>>

\* from the entry to the first call of res
IDASensRes1DQ ==
  /\ dq.pc = "entry"
  /\ LET del == RSqrt(MAX(dqin.reltol, uround))
         rdel == RInv(del)
         skipFP == IF dqin.plist # 0 THEN dqin.plist < 0 ELSE FALSE
         psave == p
         pbari == ABS(dqin.pbar)
         Delp == RMul(pbari, del)
         rDelp == RInv(Delp)
         norms == RMul(IDAWrmsNorm(dqin.yyS, DQewt), pbari)
         rDely == RDiv(MAX(norms, rdel), pbari)
         Dely == RInv(rDely)
         ratio == RMul(Dely, rDelp)
         rhomax == dqin.rhomax
         method == IF RLe(MAX(RInv(ratio), ratio), ABS(rhomax)) \/ rhomax = ZERO
                   THEN (IF RGe(rhomax, ZERO) THEN CENTERED1 ELSE FORWARD1)
                   ELSE (IF RGt(rhomax, ZERO) THEN CENTERED2 ELSE FORWARD2)
         both == method \in {CENTERED1, FORWARD1}
         Del == IF both THEN MIN(Dely, Delp) ELSE Dely
     IN  /\ dq' = [pc |-> "res1", method |-> method, skipFP |-> skipFP, psave |-> psave,
                   Del |-> Del, Delp |-> Delp,
                   ytemp |-> RAdd(RMul(Del, dqin.yyS), DQyy),
                   yptemp |-> RAdd(RMul(Del, DQypS), DQyp),
                   resvalS |-> ZERO, restemp |-> ZERO, ier |-> IDA_SUCCESS]
         /\ p' = IF both THEN RAdd(psave, Del) ELSE p
  /\ UNCHANGED dqlog
  /\ DQFrame

\* return(ier) after a failed call of res: nothing more is assigned
DQReturn(ier, d) == dq' = [d EXCEPT !.pc = "done", !.ier = ier] /\ UNCHANGED p
\* the end of the switch: p[which] = psave, return(0)
DQFinish(d) == dq' = [d EXCEPT !.pc = "done", !.ier = 0] /\ p' = dq.psave
DQDiff(r, a, b) == RSub(RMul(r, a), RMul(r, b))

\* one call of res, with what follows it up to the next call or the return
DQRes(ier) ==
  /\ dq.pc \in {"res1", "res2", "res3", "res4"}
  /\ dqlog' = dqlog \cup {p}
  /\ LET m == dq.method
         psave == dq.psave
         rDel == RInv(dq.Del)
         r2Del == RDiv(HALF, dq.Del)
         rDelp == RInv(dq.Delp)
         r2Delp == RDiv(HALF, dq.Delp)
         back == [dq EXCEPT !.ytemp = RAdd(RMul(RNeg(dq.Del), dqin.yyS), DQyy),
                            !.yptemp = RAdd(RMul(RNeg(dq.Del), DQypS), DQyp)]
         atArgs == ResFn(DQyy, DQyp, p)
     IN  CASE dq.pc = "res1" ->
                LET d == [dq EXCEPT !.resvalS = ResFn(dq.ytemp, dq.yptemp, p)]
                    q1 == [d EXCEPT !.resvalS = DQDiff(rDel, d.resvalS, DQresval(psave))]
                IN  IF ier # 0 THEN DQReturn(ier, d)
                    ELSE IF m = CENTERED1 THEN
                      /\ dq' = [back EXCEPT !.resvalS = d.resvalS, !.pc = "res2"]
                      /\ p' = RSub(psave, dq.Del)
                    ELSE IF m = CENTERED2 THEN
                      /\ dq' = [back EXCEPT !.resvalS = d.resvalS, !.pc = "res2"]
                      /\ UNCHANGED p
                    ELSE IF m = FORWARD1 THEN DQFinish(q1)
                    ELSE IF ~dq.skipFP THEN
                      /\ dq' = [q1 EXCEPT !.pc = "res3"]
                      /\ p' = RAdd(psave, dq.Delp)
                    ELSE DQFinish(q1)
           [] dq.pc = "res2" ->
                LET d == [dq EXCEPT !.restemp = ResFn(dq.ytemp, dq.yptemp, p)]
                    q1 == [d EXCEPT !.resvalS = DQDiff(r2Del, d.resvalS, d.restemp)]
                IN  IF ier # 0 THEN DQReturn(ier, d)
                    ELSE IF m = CENTERED1 THEN DQFinish(q1)
                    ELSE IF ~dq.skipFP THEN
                      /\ dq' = [q1 EXCEPT !.pc = "res3"]
                      /\ p' = RAdd(psave, dq.Delp)
                    ELSE DQFinish(q1)
           [] dq.pc = "res3" ->
                IF m = CENTERED2 THEN
                  LET d == [dq EXCEPT !.ytemp = atArgs]
                  IN  IF ier # 0 THEN DQReturn(ier, d)
                      ELSE /\ dq' = [d EXCEPT !.pc = "res4"]
                           /\ p' = RSub(psave, dq.Delp)
                ELSE
                  LET d == [dq EXCEPT !.restemp = atArgs]
                      q2 == DQDiff(rDelp, d.restemp, DQresval(psave))
                  IN  IF ier # 0 THEN DQReturn(ier, d)
                      ELSE DQFinish([d EXCEPT !.restemp = q2,
                                              !.resvalS = RAdd(d.resvalS, q2)])
           [] dq.pc = "res4" ->
                LET d == [dq EXCEPT !.yptemp = atArgs]
                    q2 == DQDiff(r2Delp, d.ytemp, d.yptemp)
                IN  IF ier # 0 THEN DQReturn(ier, d)
                    ELSE DQFinish([d EXCEPT !.restemp = q2,
                                            !.resvalS = RAdd(d.resvalS, q2)])
  /\ DQFrame

NextDQ ==
  \/ IDASensRes1DQ
  \/ \E ier \in ResCallRets : DQRes(ier)

SpecDQ == InitDQ /\ [][NextDQ]_vars

\* the test IDASolve makes before anything else, and a variant that lets every
\* instance through
NotMallocedNever == FALSE
NotMalloced == MallocDone = FALSE

(***************************************************************************)
(* IDASolve, from its entry to the top of the step loop.                   *)
(***************************************************************************)
IDASolve(to, task, lin, rq) ==
  /\ pc = "idle" /\ calls < MaxCalls /\ ~mem.freed
  /\ to \in OfferedTouts /\ task \in OfferedTasks
  /\ ~(nst = 0 /\ hin = ZERO /\ to = tn)
  /\ IF calls = 0 THEN TRUE ELSE task = itask
  /\ IF SetupDone THEN lin = 0 ELSE TRUE
  /\ IF quad /\ nst = 0 THEN TRUE ELSE rq = ZERO
  /\ calls' = calls + 1 /\ tout' = to /\ itask' = task
  /\ nstloc' = IF NotMalloced THEN nstloc ELSE 0
  /\ UNCHANGED <<MallocDone, mallocRet, dqVars, gs>>
  /\ IF NotMalloced THEN
       /\ ret' = IDA_NO_MALLOC
       /\ UNCHANGED <<pc, tret, tretp, yret, SetupDone, ewt, ewtQ, ewtS, hh, phi, phiQ,
                      phiS, kk, kused, epsNewt, toldel>>
     ELSE
     LET istop == task \in {IDA_NORMAL_TSTOP, IDA_ONE_STEP_TSTOP}
         ier == IF SetupDone THEN IDA_SUCCESS ELSE IDAInitialSetup(lin)
         w == IF SetupDone THEN ewt ELSE SetupEwt
         wQ == IF SetupDone THEN ewtQ ELSE SetupEwtQ
         wS == IF SetupDone THEN ewtS ELSE SetupEwtS
         rq1 == IF quad THEN rq ELSE phiQ[1]
         tdist == ABS(RSub(to, tn))
         troundoff == RMul(RMul(TWO, uround), RAdd(ABS(tn), ABS(to)))
         h0 == InitialStep(to, w, wQ, wS, rq1)
         h == IF istop THEN ClipToTstop(h0) ELSE h0
         st == IDAStopTest1(to, task, tn, tn)
     IN  IF istop /\ ~tstopset THEN
           /\ Return(IDA_ILL_INPUT, tn, tn, yret)
           /\ UNCHANGED <<SetupDone, ewt, ewtQ, ewtS, hh, phi, phiQ, phiS, kk, kused,
                          epsNewt, toldel>>
         ELSE IF nst = 0 /\ ier # IDA_SUCCESS THEN
           /\ Return(IDA_ILL_INPUT, tn, tn, yret)
           /\ ewt' = w /\ ewtQ' = wQ /\ ewtS' = wS
           /\ UNCHANGED <<SetupDone, hh, phi, phiQ, phiS, kk, kused, epsNewt, toldel>>
         ELSE IF nst = 0 /\ RLt(tdist, troundoff) THEN
           /\ Return(IDA_ILL_INPUT, tn, tn, yret)
           /\ SetupDone' = TRUE /\ ewt' = w /\ ewtQ' = wQ /\ ewtS' = wS
           /\ phiQ' = [phiQ EXCEPT ![1] = rq1]
           /\ UNCHANGED <<hh, phi, phiS, kk, kused, epsNewt, toldel>>
         ELSE IF nst = 0 /\ hin # ZERO /\ ProdNeg(RSub(to, tn), hin) THEN
           /\ Return(IDA_ILL_INPUT, tn, tn, yret)
           /\ SetupDone' = TRUE /\ ewt' = w /\ ewtQ' = wQ /\ ewtS' = wS
           /\ phiQ' = [phiQ EXCEPT ![1] = rq1] /\ hh' = hin
           /\ UNCHANGED <<phi, phiS, kk, kused, epsNewt, toldel>>
         ELSE IF nst = 0 /\ istop /\ ProdNeg(RSub(tstop, tn), h0) THEN
           /\ Return(IDA_ILL_INPUT, tn, tn, yret)
           /\ SetupDone' = TRUE /\ ewt' = w /\ ewtQ' = wQ /\ ewtS' = wS
           /\ phiQ' = [phiQ EXCEPT ![1] = rq1] /\ hh' = h0
           /\ UNCHANGED <<phi, phiS, kk, kused, epsNewt, toldel>>
         ELSE IF nst = 0 THEN
           /\ pc' = "loop" /\ ret' = NoRet /\ tret' = tn /\ tretp' = tn
           /\ UNCHANGED yret
           /\ SetupDone' = TRUE /\ ewt' = w /\ ewtQ' = wQ /\ ewtS' = wS
           /\ hh' = h
           /\ phi' = [phi EXCEPT ![1] = RMul(h, phi[1])]
           /\ phiQ' = [phiQ EXCEPT ![1] = IF quad THEN RMul(h, rq1) ELSE phiQ[1]]
           /\ phiS' = [phiS EXCEPT ![1] = IF sensi THEN RMul(h, phiS[1]) ELSE phiS[1]]
           /\ kk' = 0 /\ kused' = 0
           /\ epsNewt' = EPCON /\ toldel' = RMul(PT0001, EPCON)
         ELSE
           /\ hh' = st.hh
           /\ IF st.code = CONTINUE_STEPS
              THEN /\ pc' = "loop" /\ ret' = NoRet /\ tret' = st.tret
                   /\ tretp' = st.tretp /\ yret' = st.yret
              ELSE Return(st.code, st.tret, st.tretp, st.yret)
           /\ UNCHANGED <<SetupDone, ewt, ewtQ, ewtS, phi, phiQ, phiS, kk, kused,
                          epsNewt, toldel>>
  /\ LET setup == /\ ~NotMalloced /\ (task \in {IDA_NORMAL_TSTOP, IDA_ONE_STEP_TSTOP} => tstopset)
                   /\ nst = 0 /\ ~SetupDone /\ SetupSensTols
     IN  /\ heap' = IF setup /\ heap["abstolS"].ptr = "unset"
                     THEN Alloc(heap, {"abstolS"}) ELSE heap
         /\ mem' = [mem EXCEPT !.abstolSalloc = IF setup THEN heap["abstolS"].ptr = "unset" ELSE @,
                               !.linits = IF LinitCalled(task) THEN @ + 1 ELSE @,
                               \* the calls that have scaled phi[1] by the first step size
                               !.scalings = IF nst = 0 /\ pc' = "loop" THEN @ + 1 ELSE @]
  /\ UNCHANGED <<opt, nst, tn, hused, knew, ns, phase, psi, alpha, beta, sigma, gamma,
                 cj, cjold, cjratio, cjlast, rr, ee, eeQ, eeS, forceSetup, stepVars, pre, hist>>

(***************************************************************************)
(* Top of the step loop of IDASolve, up to the entry of IDAStep.           *)
(***************************************************************************)
coreVars == <<lifeVars, opt, SetupDone, knew, alpha, beta, sigma, gamma, phi, phiQ, phiS,
              cjold, cjratio, cjlast, rr, ee, eeQ, eeS, forceSetup, epsNewt, toldel>>

\* the test for too many steps taken in this call, and a variant of it that
\* lets one more step through
WorkExceededLate == nstloc > mxstep
WorkExceeded == nstloc >= mxstep

LoopTop ==
  /\ pc = "loop"
  /\ IF WorkExceeded THEN TRUE ELSE nst < MaxNst
  /\ LET ewtsetOK == IDAEwtSetOK(phi[0])
         ewtQsetOK == IF errconQ THEN IDAEwtSetOK(phiQ[0]) ELSE TRUE
         ewtSsetOK == IF sensi THEN IDAEwtSetOK(phiS[0]) ELSE TRUE
         w == IF nst > 0 /\ ewtsetOK THEN IDAEwtSet(phi[0]) ELSE ewt
         wQ == IF nst > 0 /\ errconQ /\ ewtQsetOK THEN IDAEwtSet(phiQ[0]) ELSE ewtQ
         wS == IF nst > 0 /\ sensi /\ ewtSsetOK THEN IDAEwtSet(phiS[0]) ELSE ewtS
         n0 == IDAWrmsNorm(phi[0], w)
         n1 == IF errconQ THEN IDAQuadWrmsNormUpdate(n0, phiQ[0], wQ) ELSE n0
         nrm == IF errconS THEN IDASensWrmsNormUpdate(n1, phiS[0], wS) ELSE n1
         \* tolsf = uround * nrm; tolsf > 1 decided as nrm > 1/uround
         tolsfBig == RGt(nrm, RInv(uround))
     IN  IF WorkExceeded THEN
           /\ Return(IDA_TOO_MUCH_WORK, tn, tn, yret)
           /\ UNCHANGED <<ewt, ewtQ, ewtS, saved_t, ncf, nef, est, estQ, estS, kk, kused, hused,
                          psi, cj, phase, ns>>
         ELSE IF nst > 0 /\ ~(ewtsetOK /\ ewtQsetOK /\ ewtSsetOK) THEN
           /\ Return(IDA_ILL_INPUT, tn, tn, GetSolutionInto(tn))
           /\ ewt' = w /\ ewtQ' = wQ /\ ewtS' = wS
           /\ UNCHANGED <<saved_t, ncf, nef, est, estQ, estS, kk, kused, hused, psi, cj, phase, ns>>
         ELSE IF tolsfBig THEN
           /\ Return(IDA_TOO_MUCH_ACC, tn, tn, IF nst > 0 THEN GetSolutionInto(tn) ELSE yret)
           /\ ewt' = w /\ ewtQ' = wQ /\ ewtS' = wS
           /\ UNCHANGED <<saved_t, ncf, nef, est, estQ, estS, kk, kused, hused, psi, cj, phase, ns>>
         ELSE
           /\ pc' = "coeffs"
           /\ ewt' = w /\ ewtQ' = wQ /\ ewtS' = wS
           /\ saved_t' = tn /\ ncf' = 0 /\ nef' = 0 /\ est' = Unset /\ estQ' = Unset /\ estS' = Unset
           /\ kk' = IF nst = 0 THEN 1 ELSE kk
           /\ kused' = IF nst = 0 THEN 0 ELSE kused
           /\ hused' = IF nst = 0 THEN ZERO ELSE hused
           /\ psi' = IF nst = 0 THEN [psi EXCEPT ![0] = hh] ELSE psi
           /\ cj' = IF nst = 0 THEN RInv(hh) ELSE cj
           /\ phase' = IF nst = 0 THEN 0 ELSE phase
           /\ ns' = IF nst = 0 THEN 0 ELSE ns
           /\ UNCHANGED <<ret, tret, tretp, yret>>
  /\ UNCHANGED <<coreVars, nst, tn, hh, calls, tout, itask, nstloc,
                 ck, erk, erkm1, error_k, error_km1, nflag, callSetup, pass, pre, hist>>

(***************************************************************************)
(* IDASetCoeffs.                                                           *)
(***************************************************************************)
SetNs == IMin((IF hh # hused \/ kk # kused THEN 0 ELSE ns) + 1, kused + 2)
Recompute == kk + 1 >= SetNs

NewPsi(i) == IF i = 0 THEN hh ELSE RAdd(psi[i - 1], hh)
NewAlpha(i) == IF i = 0 THEN ONE ELSE RDiv(hh, NewPsi(i))

RECURSIVE NewBeta(_)
NewBeta(i) ==
  IF i = 0 THEN ONE ELSE RMul(NewBeta(i - 1), RDiv(NewPsi(i - 1), psi[i - 1]))

RECURSIVE NewSigma(_)
NewSigma(i) ==
  IF i = 0 THEN ONE ELSE RMul(RInt(i), RMul(NewSigma(i - 1), NewAlpha(i)))

RECURSIVE NewGamma(_)
NewGamma(i) ==
  IF i = 0 THEN ZERO ELSE RAdd(NewGamma(i - 1), RDiv(NewAlpha(i - 1), hh))

CoefPsi == [i \in Ord |-> IF Recompute /\ i <= kk THEN NewPsi(i) ELSE psi[i]]
CoefAlpha == [i \in Ord |-> IF Recompute /\ i <= kk THEN NewAlpha(i) ELSE alpha[i]]
CoefBeta == [i \in Ord |-> IF Recompute /\ i <= kk THEN NewBeta(i) ELSE beta[i]]
CoefSigma == [i \in Ord |-> IF Recompute /\ i <= kk THEN NewSigma(i) ELSE sigma[i]]
CoefGamma == [i \in Ord |-> IF Recompute /\ i <= kk THEN NewGamma(i) ELSE gamma[i]]

RECURSIVE SumInv(_)
SumInv(n) == IF n = 0 THEN ZERO ELSE RAdd(SumInv(n - 1), <<1, n>>)

RECURSIVE SumAlpha(_)
SumAlpha(n) == IF n = 0 THEN ZERO ELSE RAdd(SumAlpha(n - 1), CoefAlpha[n - 1])

CoefCk ==
  LET alphas == RNeg(SumInv(kk))
      alpha0 == RNeg(SumAlpha(kk))
  IN  MAX(ABS(RSub(RAdd(CoefAlpha[kk], alphas), alpha0)), CoefAlpha[kk])

\* phi to phi-star: components ns..kk are scaled by beta
PhiStar(arr) ==
  [i \in Ord |-> IF SetNs <= i /\ i <= kk THEN RMul(CoefBeta[i], arr[i]) ELSE arr[i]]

IDASetCoeffs ==
  /\ pc = "coeffs"
  /\ kk >= 1   \* a run that has left the orders of the method is not followed
  /\ pc' = "nls"
  /\ pre' = [tn |-> tn, kk |-> kk, psi |-> psi, phi |-> phi, phiQ |-> phiQ, phiS |-> phiS]
  /\ ns' = SetNs
  /\ psi' = CoefPsi /\ alpha' = CoefAlpha /\ beta' = CoefBeta
  /\ sigma' = CoefSigma /\ gamma' = CoefGamma
  /\ cjlast' = cj /\ cj' = RDiv(SumInv(kk), hh)
  /\ ck' = CoefCk
  /\ phi' = PhiStar(phi)
  /\ phiQ' = IF quad THEN PhiStar(phiQ) ELSE phiQ
  /\ phiS' = IF sensi THEN PhiStar(phiS) ELSE phiS
  /\ tn' = RAdd(tn, hh)
  \* IDAStep and IDANls start the attempt: nflag is assigned before it is read
  /\ pass' = 0 /\ callSetup' = FALSE /\ nflag' = IDA_SUCCESS
  /\ hist' = [hist EXCEPT !.passed = {}]
  /\ UNCHANGED <<lifeVars, opt, SetupDone, nst, hh, hused, kk, kused, knew, phase, cjold, cjratio, rr,
                 ewt, ewtQ, ewtS, ee, eeQ, eeS, forceSetup, tretp, epsNewt, toldel,
                 argVars, saved_t, est, estQ, estS, erk, erkm1, error_k, error_km1, ncf,
                 nef>>

(***************************************************************************)
(* IDANls: the corrector for the state variables.                          *)
(***************************************************************************)
sensi_sim == sensi /\ ism = IDA_SIMULTANEOUS
sensi_stgr == sensi /\ ism = IDA_STAGGERED
sensi_stgr1 == sensi /\ ism = IDA_STAGGERED1

\* values the user's residual functions return
ResRets == {IDA_LSETUP_FAIL, -1, 0, IDA_RES_RECVR, IDA_CONSTR_RECVR, ERROR_TEST_FAIL}
SensRets == {-1, 0, 1}
\* values the linear solver's lsetup and lsolve return
LsRets == {-1, 0, 1}
\* corrections ee the Newton iteration converges to
EeSet == {ZERO, <<-1, 2>>, <<-1, 1>>, <<3, 1>>, <<12, 1>>}
\* a problem with constraints is driven towards them, one without into the error
\* test; the largest correction, which fails the test after a step size cut as
\* well, comes where maxnef allows a retry after the third failure
EeOffered(e) ==
  /\ e # (IF constraintsSet THEN <<3, 1>> ELSE <<-1, 1>>)
  /\ e = <<12, 1>> => maxnef > 3
EeSSet == {ZERO, <<3, 1>>}

\* the attempts of a run fail MaxFails times at most, all within one step; once
\* more where the configuration lets a step retry after its third failure
FailLimit == IF maxncf > 2 \/ maxnef > 3 THEN MaxFails + 1 ELSE MaxFails
Budget == hist.fails < FailLimit /\ (hist.fails = 0 \/ hist.step = nst)
\* a positive residual value that makes IDAHandleNFlag read rr is returned
\* only once the field has been assigned, and one that makes it read knew or
\* rr only in the runs where a step fails twice at most (a third failure
\* after one takes the step sizes out of the 32-bit rationals)
Readable(r) ==
  CASE r = ERROR_TEST_FAIL -> FailLimit = MaxFails
    [] r = IDA_CONSTR_RECVR -> rr # Unset /\ FailLimit = MaxFails
    [] OTHER -> TRUE

\* the head of IDANls: is lsetup to be called on the first pass?
NlsCjold == IF nst = 0 THEN cj ELSE cjold
NlsCallSetupUnforced ==
  IF ~setupNonNull THEN FALSE
  ELSE IF nst = 0 THEN TRUE
  ELSE LET ratio == RDiv(cj, NlsCjold)
           temp1 == RDiv(RSub(ONE, XRATE), RAdd(ONE, XRATE))
           temp2 == RInv(temp1)
       IN  RLt(ratio, temp1) \/ RGt(ratio, temp2)
NlsCallSetup ==
  IF ~setupNonNull THEN FALSE
  ELSE IF nst = 0 THEN TRUE
  ELSE LET ratio == RDiv(cj, NlsCjold)
           temp1 == RDiv(RSub(ONE, XRATE), RAdd(ONE, XRATE))
           temp2 == RInv(temp1)
       IN  IF RLt(ratio, temp1) THEN TRUE
           ELSE IF RGt(ratio, temp2) THEN TRUE
           ELSE forceSetup

\* IDAPredict: yy = sum of phi[0..kk]
RECURSIVE SumTo(_, _)
SumTo(arr, n) == IF n = 0 THEN arr[0] ELSE RAdd(SumTo(arr, n - 1), arr[n])
IDAPredict == SumTo(phi, kk)

\* the attempt fails with nflag = code; hist records the callback or test that
\* failed and the value it returned and, where a step may fail three times, the
\* recoverable corrector failures of the step in their order
FailAt(where, code, cause, val) ==
  /\ pc' = where /\ nflag' = code
  /\ hist' = [fails |-> hist.fails + 1, step |-> nst, cause |-> cause, val |-> val,
              kinds |-> IF maxncf > 2 /\ code > 0 /\ code # ERROR_TEST_FAIL
                        THEN Append(hist.kinds, code) ELSE hist.kinds,
              hs |-> hist.hs, passed |-> hist.passed, nls |-> NoNls,
              \* the last call of lsetup returned a failure
              lsbad |-> (cause = "lsetup" \/ hist.lsbad)]
Fail(code, cause, val) == FailAt("fail", code, cause, val)

\* predicted values and the residuals there: r from res, sr from IDASensRes
IDANlsRes(r, sr) ==
  /\ pc = "nls"
  /\ IF r # 0 THEN Budget /\ Readable(r) ELSE TRUE
  /\ IF sensi_sim /\ r = 0 THEN (IF sr # 0 THEN Budget ELSE TRUE) ELSE sr = 0
  /\ callSetup' = IF pass = 0 THEN NlsCallSetup ELSE callSetup
  /\ cjold' = IF pass = 0 THEN NlsCjold ELSE cjold
  /\ cjratio' = IF pass = 0 /\ setupNonNull THEN RDiv(cj, NlsCjold) ELSE cjratio
  /\ yret' = Stepped(tn)
  /\ IF r # 0 THEN Fail(r, "res", r)
     ELSE IF sr # 0 THEN Fail(sr, "resS", sr)
     ELSE /\ pc' = IF callSetup' THEN "nls_setup" ELSE "nls_newton"
          /\ hist' = [hist EXCEPT !.nls.passes = @ + 1]
          /\ UNCHANGED nflag
  /\ UNCHANGED <<lifeVars, opt, SetupDone, nst, tn, hh, hused, kk, kused, knew, ns, phase,
                 psi, alpha, beta, sigma, gamma, phi, phiQ, phiS, cj, cjlast, rr,
                 ewt, ewtQ, ewtS, ee, eeQ, eeS, forceSetup, tretp, epsNewt, toldel,
                 calls, tout, itask, nstloc, ret, tret,
                 saved_t, ck, est, estQ, estS, erk, erkm1, error_k, error_km1, ncf, nef,
                 pass, pre>>

\* the call of lsetup in IDANls, returning l
IDANlsSetup(l) ==
  /\ pc = "nls_setup"
  /\ IF l # 0 THEN Budget ELSE TRUE
  /\ forceSetup' = FALSE /\ cjold' = cj /\ cjratio' = ONE
  /\ IF l < 0 THEN Fail(IDA_LSETUP_FAIL, "lsetup", l)
     ELSE IF l > 0 THEN Fail(IDA_LSETUP_RECVR, "lsetup", l)
     ELSE /\ pc' = "nls_newton" /\ UNCHANGED nflag
          /\ hist' = [hist EXCEPT !.nls.setups = @ + 1, !.lsbad = FALSE]
  /\ UNCHANGED <<lifeVars, opt, SetupDone, nst, tn, hh, hused, kk, kused, knew, ns, phase,
                 psi, alpha, beta, sigma, gamma, phi, phiQ, phiS, cj, cjlast, rr,
                 ewt, ewtQ, ewtS, ee, eeQ, eeS, tretp, epsNewt, toldel,
                 argVars, saved_t, ck, est, estQ, estS, erk, erkm1, error_k, error_km1,
                 ncf, nef, callSetup, pass, pre>>

(***************************************************************************)
(* IDANewtonIter, seen from its last iteration: ls is what lsolve          *)
(* returned there, conv the outcome of the convergence test, r what res    *)
(* returned at the new iterate.                                            *)
(***************************************************************************)
Convs == {"converged", "diverged", "continue"}

\* the first pass is repeated with a call of lsetup whatever was set up
TryAgainUnconditional(retval) == retval > 0 /\ setupNonNull
\* IDANls, IDAStgrNls, IDAStgr1Nls: retry on a recoverable failure with old
\* Jacobian data
TryAgain(retval) == retval > 0 /\ setupNonNull /\ ~callSetup

IDANewtonIter(ls, conv, r) ==
  IF ls < 0 THEN IDA_LSOLVE_FAIL
  ELSE IF ls > 0 THEN IDA_LSOLVE_RECVR
  ELSE IF conv = "converged" THEN IDA_SUCCESS
  ELSE IF conv = "diverged" THEN IDA_NCONV_RECVR
  ELSE IF r < 0 THEN IDA_RES_FAIL
  ELSE IDA_RES_RECVR

\* the iteration that ends the loop: one of the three calls decides
LastIteration(ls, conv, r) ==
  IF ls # 0 THEN conv = "converged" /\ r = 0
  ELSE IF conv = "continue" THEN r # 0
  ELSE r = 0

\* the constraint check of IDANls at the corrected yy
ConstrV(ycor) ==
  LET a == IF IAbs(constraints) = 2 THEN ONE ELSE ZERO
  IN  RSub(ycor, RMul(PT1, RDiv(RMul(a, RInt(constraints)), ewt)))
ConstrRr(ycor) ==
  LET d == RSub(phi[0], ycor)
      quot == IF d = ZERO THEN HUNDRED ELSE RDiv(phi[0], d)
  IN  MAX(RMul(PT9, quot), PT1)

\* the ways the iteration can end, with the corrections it then leaves in ee, eeS
NewtonEnds ==
  {x \in LsRets \X Convs \X ResRets \X EeSet \X EeSSet :
     /\ LastIteration(x[1], x[2], x[3])
     /\ IF IDANewtonIter(x[1], x[2], x[3]) = IDA_SUCCESS
        THEN TRUE ELSE x[4] = ZERO /\ x[5] = ZERO}

\* which call ended the iteration with a failure, and the value it returned
NewtonCause(ls, conv, res) ==
  IF ls # 0 THEN "lsolve" ELSE IF conv = "diverged" THEN "nconv" ELSE res
NewtonVal(ls, conv, r) ==
  IF ls # 0 THEN ls ELSE IF conv = "diverged" THEN IDA_NCONV_RECVR ELSE r

IDANlsNewton(ls, conv, r, e, eS) ==
  /\ pc = "nls_newton"
  /\ LET retval == IDANewtonIter(ls, conv, r)
         tryAgain == TryAgain(retval)
         ycor == RAdd(IDAPredict, e)
         passed == IF constraintsSet THEN N_VConstrMask(constraints, ycor) ELSE TRUE
         v == ConstrV(ycor)
         small == RLe(IDAWrmsNorm(v, ewt), epsNewt)
     IN  /\ IF retval = IDA_SUCCESS THEN EeOffered(e) ELSE TRUE
         /\ IF retval = IDA_SUCCESS /\ sensi_sim THEN TRUE ELSE eS = ZERO
         /\ IF tryAgain THEN
              /\ pc' = "nls" /\ callSetup' = TRUE /\ pass' = 1
              /\ hist' = [hist EXCEPT !.nls.recov = retval > 0]
              /\ UNCHANGED <<nflag, ee, eeS, rr>>
            ELSE IF retval # IDA_SUCCESS THEN
              /\ Budget /\ Fail(retval, NewtonCause(ls, conv, "res"), NewtonVal(ls, conv, r))
              /\ ee' = ZERO /\ eeS' = IF sensi_sim THEN ZERO ELSE eeS
              /\ UNCHANGED <<callSetup, pass, rr>>
            ELSE IF passed THEN
              /\ pc' = "test" /\ ee' = e
              /\ eeS' = IF sensi_sim THEN eS ELSE eeS
              /\ hist' = [hist EXCEPT !.passed = @ \cup {"nls"}, !.nls = NoNls]
              /\ UNCHANGED <<nflag, callSetup, pass, rr>>
            ELSE IF small THEN
              /\ pc' = "test" /\ ee' = RSub(e, v)
              /\ eeS' = IF sensi_sim THEN eS ELSE eeS
              /\ hist' = [hist EXCEPT !.passed = @ \cup {"nls"}, !.nls = NoNls]
              /\ UNCHANGED <<nflag, callSetup, pass, rr>>
            ELSE
              /\ Budget /\ Fail(IDA_CONSTR_RECVR, "constr", IDA_CONSTR_RECVR)
              /\ rr' = ConstrRr(ycor) /\ ee' = e
              /\ eeS' = IF sensi_sim THEN eS ELSE eeS
              /\ UNCHANGED <<callSetup, pass>>
  /\ UNCHANGED <<lifeVars, opt, SetupDone, nst, tn, hh, hused, kk, kused, knew, ns, phase,
                 psi, alpha, beta, sigma, gamma, phi, phiQ, phiS, cj, cjold, cjratio, cjlast,
                 ewt, ewtQ, ewtS, eeQ, forceSetup, tretp, epsNewt, toldel,
                 argVars, saved_t, ck, est, estQ, estS, erk, erkm1, error_k, error_km1,
                 ncf, nef, pre>>

\* the tests with the verdict left out: every attempt passes
TestErrorUnchecked(enk, enkm1, enkm2, kn) ==
  LET terk == RMul(RInt(kk + 1), RMul(sigma[kk], enk))
      e1 == IF kk > 1 THEN RMul(sigma[kk - 1], enkm1) ELSE ZERO
      terkm1 == RMul(RInt(kk), e1)
      terkm2 == IF kk > 2 THEN RMul(RInt(kk - 1), RMul(sigma[kk - 2], enkm2)) ELSE ZERO
      decided == kk > 1 /\ kn # kk
      lower == IF kk = 2 THEN RLe(terkm1, RMul(HALF, terk))
               ELSE IF kk > 2 THEN RLe(MAX(terkm1, terkm2), terk)
               ELSE FALSE
  IN  [flag |-> IDA_SUCCESS,
       erk |-> RMul(sigma[kk], enk),
       erkm1 |-> e1,
       est |-> IF decided \/ lower THEN e1 ELSE RMul(sigma[kk], enk),
       knew |-> IF decided THEN kn ELSE IF lower THEN kk - 1 ELSE kn]

(***************************************************************************)
(* The local error tests.  enk, enkm1, enkm2 are the norms for orders      *)
(* k, k-1, k-2; kn is knew on entry (kk for the state variables).          *)
(***************************************************************************)
TestError(enk, enkm1, enkm2, kn) ==
  LET terk == RMul(RInt(kk + 1), RMul(sigma[kk], enk))
      e1 == IF kk > 1 THEN RMul(sigma[kk - 1], enkm1) ELSE ZERO
      terkm1 == RMul(RInt(kk), e1)
      terkm2 == IF kk > 2 THEN RMul(RInt(kk - 1), RMul(sigma[kk - 2], enkm2)) ELSE ZERO
      decided == kk > 1 /\ kn # kk
      lower == IF kk = 2 THEN RLe(terkm1, RMul(HALF, terk))
               ELSE IF kk > 2 THEN RLe(MAX(terkm1, terkm2), terk)
               ELSE FALSE
  IN  [flag |-> IF RGt(RMul(ck, enk), ONE) THEN ERROR_TEST_FAIL ELSE IDA_SUCCESS,
       erk |-> RMul(sigma[kk], enk),
       erkm1 |-> e1,
       est |-> IF decided \/ lower THEN e1 ELSE RMul(sigma[kk], enk),
       knew |-> IF decided THEN kn ELSE IF lower THEN kk - 1 ELSE kn]

StateNorm(x, xS) ==
  IF sensi_sim /\ errconS
  THEN IDASensWrmsNormUpdate(IDAWrmsNorm(x, ewt), xS, ewtS)
  ELSE IDAWrmsNorm(x, ewt)

Ph(arr, j) == IF j >= 0 THEN arr[j] ELSE ZERO

IDATestError ==
  LET d1 == RAdd(phi[kk], ee)
      d1S == RAdd(phiS[kk], eeS)
      d2 == RAdd(Ph(phi, kk - 1), d1)
      d2S == RAdd(Ph(phiS, kk - 1), d1S)
  IN  TestError(StateNorm(ee, eeS), StateNorm(d1, d1S), StateNorm(d2, d2S), kk)

\* where IDAStep goes after the state variables have passed
AfterState == IF quad THEN "quad" ELSE IF sensi_stgr \/ sensi_stgr1 THEN "stgr" ELSE "complete"

StateTest ==
  /\ pc = "test"
  /\ LET te == IDATestError
     IN  /\ knew' = te.knew /\ est' = te.est /\ erk' = te.erk
         /\ erkm1' = IF kk > 1 THEN te.erkm1 ELSE erkm1
         /\ error_k' = erk' /\ error_km1' = erkm1'
         /\ IF te.flag = IDA_SUCCESS
            THEN /\ pc' = AfterState /\ UNCHANGED nflag
                 /\ hist' = [hist EXCEPT !.passed = @ \cup {"etest"}]
            ELSE Budget /\ Fail(te.flag, "etest", te.flag)
  /\ UNCHANGED <<lifeVars, opt, SetupDone, nst, tn, hh, hused, kk, kused, ns, phase,
                 psi, alpha, beta, sigma, gamma, phi, phiQ, phiS, cj, cjold, cjratio, cjlast,
                 rr, ewt, ewtQ, ewtS, ee, eeQ, eeS, forceSetup, tretp, epsNewt, toldel,
                 argVars, saved_t, ck, estQ, estS, ncf, nef, callSetup, pass, pre>>

(***************************************************************************)
(* IDARestore, IDAHandleNFlag, IDAReset: a failed attempt.                 *)
(***************************************************************************)
\* (IDARestorePsiKept: a variant that leaves psi as the failed attempt set it)
IDARestorePsiKept == psi
IDARestorePsi == [j \in Ord |-> IF j < kk THEN RSub(psi[j + 1], hh) ELSE psi[j]]

IDARestorePhi(arr) ==
  [j \in Ord |-> IF ns <= j /\ j <= kk THEN RDiv(arr[j], beta[j]) ELSE arr[j]]

Clamp(lo, hi, x) == MAX(lo, MIN(hi, x))

\* what IDAHandleNFlag returns and leaves in kk, rr, hh, *ncf, *nef
IDAHandleNFlag(flag, estArg, kn) ==
  LET keep == [kflag |-> flag, kk |-> kk, rr |-> rr, hh |-> hh, ncf |-> ncf, nef |-> nef]
      rc == IF flag # IDA_CONSTR_RECVR THEN QUARTER ELSE rr
      r1 == Clamp(QUARTER, PT9,
                  RMul(PT9, PowNegRoot(RAdd(RMul(TWO, estArg), PT0001), kn + 1)))
  IN  IF flag # ERROR_TEST_FAIL THEN
        IF flag < 0 THEN keep
        ELSE [keep EXCEPT !.ncf = ncf + 1, !.rr = rc, !.hh = RMul(hh, rc),
                          !.kflag = IF ncf + 1 < maxncf THEN PREDICT_AGAIN
                                    ELSE IF flag = IDA_RES_RECVR THEN IDA_REP_RES_ERR
                                    ELSE IF flag = IDA_CONSTR_RECVR THEN IDA_CONSTR_FAIL
                                    ELSE IDA_CONV_FAIL]
      ELSE IF nef + 1 = 1 THEN
        [keep EXCEPT !.nef = 1, !.kk = kn, !.rr = r1, !.hh = RMul(hh, r1),
                     !.kflag = PREDICT_AGAIN]
      ELSE IF nef + 1 = 2 THEN
        [keep EXCEPT !.nef = 2, !.kk = kn, !.rr = QUARTER, !.hh = RMul(hh, QUARTER),
                     !.kflag = PREDICT_AGAIN]
      ELSE IF nef + 1 < maxnef THEN
        [keep EXCEPT !.nef = nef + 1, !.kk = 1, !.rr = QUARTER, !.hh = RMul(hh, QUARTER),
                     !.kflag = PREDICT_AGAIN]
      ELSE [keep EXCEPT !.nef = nef + 1, !.kflag = IDA_ERR_FAIL]

\* an error estimate that was never assigned holds whatever the stack held
EstGarbage == {ZERO, <<3, 1>>}
\* knew is assigned by IDATestError only: until then the field holds whatever
\* the memory IDACreate obtained held
KnewGarbage == {0, 1}

IDAReset(arr, r) == [arr EXCEPT ![1] = RMul(r, arr[1])]

StepFail(g, kg) ==
  /\ pc \in {"fail", "failQ", "failS"}
  /\ LET arg == IF pc = "fail" THEN est ELSE IF pc = "failQ" THEN estQ ELSE estS
         garbage == nflag = ERROR_TEST_FAIL /\ nef = 0 /\ arg = Unset
         kgarbage == nflag = ERROR_TEST_FAIL /\ nef < 2 /\ knew = UNSET
         hn == IDAHandleNFlag(nflag, IF arg = Unset THEN g ELSE arg,
                              IF kgarbage THEN kg ELSE knew)
         again == hn.kflag = PREDICT_AGAIN
         reset == again /\ nst = 0
     IN  /\ IF garbage THEN TRUE ELSE g = ZERO
         /\ IF kgarbage THEN knew' = kg ELSE kg = 1 /\ UNCHANGED knew
         /\ tn' = saved_t
         /\ psi' = IF reset THEN [IDARestorePsi EXCEPT ![0] = hn.hh] ELSE IDARestorePsi
         /\ phi' = IF reset THEN IDAReset(IDARestorePhi(phi), hn.rr) ELSE IDARestorePhi(phi)
         /\ phiQ' = IF ~quad THEN phiQ
                    ELSE IF reset THEN IDAReset(IDARestorePhi(phiQ), hn.rr)
                    ELSE IDARestorePhi(phiQ)
         /\ phiS' = IF ~sensi THEN phiS
                    ELSE IF reset THEN IDAReset(IDARestorePhi(phiS), hn.rr)
                    ELSE IDARestorePhi(phiS)
         /\ phase' = 1 /\ kk' = hn.kk /\ rr' = hn.rr /\ hh' = hn.hh
         /\ ncf' = hn.ncf /\ nef' = hn.nef
         /\ hist' = [hist EXCEPT !.cause = "none", !.val = 0, !.passed = {}]
         /\ IF again
            THEN pc' = "coeffs" /\ UNCHANGED <<ret, tret, tretp, yret>>
            ELSE Return(IDAHandleFailure(hn.kflag), saved_t, saved_t,
                        IF IDAGetSolutionAt(saved_t, saved_t, hn.hh) = IDA_SUCCESS
                        THEN Interp(saved_t) ELSE yret)
  /\ UNCHANGED <<lifeVars, opt, SetupDone, nst, hused, kused, ns, alpha, beta, sigma, gamma,
                 cj, cjold, cjratio, cjlast, ewt, ewtQ, ewtS, ee, eeQ, eeS, forceSetup,
                 epsNewt, toldel, calls, tout, itask, nstloc,
                 saved_t, ck, est, estQ, estS, erk, erkm1, error_k, error_km1, nflag,
                 callSetup, pass, pre>>

(***************************************************************************)
(* IDAStep: the quadrature variables.  rq is the value rhsQ returns.       *)
(***************************************************************************)
RECURSIVE SumGamma(_, _)
SumGamma(arr, n) ==
  IF n = 0 THEN ZERO ELSE RAdd(SumGamma(arr, n - 1), RMul(gamma[n], arr[n]))

AfterQuad == IF sensi_stgr \/ sensi_stgr1 THEN "stgr" ELSE "complete"

IDAQuadTestError(eQ) ==
  LET d1 == RAdd(phiQ[kk], eQ)
      d2 == RAdd(Ph(phiQ, kk - 1), d1)
  IN  TestError(IDAWrmsNorm(eQ, ewtQ), IDAWrmsNorm(d1, ewtQ), IDAWrmsNorm(d2, ewtQ), knew)

QuadStep(rq) ==
  /\ pc = "quad"
  /\ LET eQ == RDiv(RSub(rq, SumGamma(phiQ, kk)), cj)
         te == IDAQuadTestError(eQ)
         failed == errconQ /\ te.flag # IDA_SUCCESS
     IN  /\ eeQ' = eQ
         /\ knew' = IF errconQ THEN te.knew ELSE knew
         /\ estQ' = IF errconQ THEN te.est ELSE estQ
         /\ error_k' = IF errconQ THEN MAX(error_k, te.erk) ELSE error_k
         /\ error_km1' = IF errconQ /\ kk > 1 THEN MAX(error_km1, te.erkm1) ELSE error_km1
         /\ IF failed THEN Budget /\ FailAt("failQ", te.flag, "etest", te.flag)
            ELSE /\ pc' = AfterQuad /\ UNCHANGED nflag
                 /\ hist' = [hist EXCEPT !.passed = @ \cup (IF errconQ THEN {"etestQ"} ELSE {})]
  /\ UNCHANGED <<lifeVars, opt, SetupDone, nst, tn, hh, hused, kk, kused, ns, phase,
                 psi, alpha, beta, sigma, gamma, phi, phiQ, phiS, cj, cjold, cjratio, cjlast,
                 rr, ewt, ewtQ, ewtS, ee, eeS, forceSetup, tretp, epsNewt, toldel,
                 argVars, saved_t, ck, est, estS, erk, erkm1, ncf, nef,
                 callSetup, pass, pre>>

(***************************************************************************)
(* IDAStep: the staggered sensitivity correctors IDAStgrNls / IDAStgr1Nls  *)
(* (one sensitivity, so the loop over is has one pass).                    *)
(***************************************************************************)
\* r0: what res returns at the converged state (IDAStep ignores it);
\* sr: what IDASensRes / IDASensRes1 returns at the predicted sensitivities
StgrRes(r0, sr) ==
  /\ pc \in {"stgr", "stgr_again"}
  /\ IF pc = "stgr" THEN TRUE ELSE r0 = 0
  /\ IF sr # 0 THEN Budget ELSE TRUE
  /\ callSetup' = (pc = "stgr_again")
  /\ IF sr # 0 THEN FailAt("failS", sr, "resS", sr)
     ELSE /\ pc' = IF callSetup' THEN "stgr_setup" ELSE "stgr_newton"
          /\ hist' = [hist EXCEPT !.nls.passes = @ + 1]
          /\ UNCHANGED nflag
  /\ UNCHANGED <<memVars, argVars, saved_t, ck, est, estQ, estS, erk, erkm1,
                 error_k, error_km1, ncf, nef, pass, pre>>

\* the call of lsetup in IDAStgrNls / IDAStgr1Nls, returning l
StgrSetup(l) ==
  /\ pc = "stgr_setup"
  /\ IF l # 0 THEN Budget ELSE TRUE
  /\ cjold' = cj /\ cjratio' = ONE
  /\ IF l # IDA_SUCCESS THEN FailAt("failS", l, "lsetup", l)
     ELSE /\ pc' = "stgr_newton" /\ UNCHANGED nflag
          /\ hist' = [hist EXCEPT !.nls.setups = @ + 1, !.lsbad = FALSE]
  /\ UNCHANGED <<lifeVars, opt, SetupDone, nst, tn, hh, hused, kk, kused, knew, ns, phase,
                 psi, alpha, beta, sigma, gamma, phi, phiQ, phiS, cj, cjlast, rr,
                 ewt, ewtQ, ewtS, ee, eeQ, eeS, forceSetup, tretp, epsNewt, toldel,
                 argVars, saved_t, ck, est, estQ, estS, erk, erkm1, error_k, error_km1,
                 ncf, nef, callSetup, pass, pre>>

\* IDAStgrNewtonIter / IDAStgr1NewtonIter, seen from the last iteration
IDAStgrNewtonIter(ls, conv, sr) ==
  IF ls < 0 THEN IDA_LSOLVE_FAIL
  ELSE IF ls > 0 THEN IDA_LSOLVE_RECVR
  ELSE IF conv = "converged" THEN IDA_SUCCESS
  ELSE IF conv = "diverged" THEN IDA_NCONV_RECVR
  ELSE sr

StgrEnds ==
  {x \in LsRets \X Convs \X SensRets \X EeSSet :
     /\ LastIteration(x[1], x[2], x[3])
     /\ IF IDAStgrNewtonIter(x[1], x[2], x[3]) = IDA_SUCCESS THEN TRUE ELSE x[4] = ZERO}

IDAStgrTestError(eS) ==
  LET d1 == RAdd(phiS[kk], eS)
      d2 == RAdd(Ph(phiS, kk - 1), d1)
  IN  TestError(IDAWrmsNorm(eS, ewtS), IDAWrmsNorm(d1, ewtS), IDAWrmsNorm(d2, ewtS), knew)

StgrNewton(ls, conv, sr, eS) ==
  /\ pc = "stgr_newton"
  /\ LET retval == IDAStgrNewtonIter(ls, conv, sr)
         tryAgain == TryAgain(retval)
         te == IDAStgrTestError(eS)
         tested == retval = IDA_SUCCESS /\ errconS
     IN  /\ eeS' = eS
         /\ knew' = IF tested THEN te.knew ELSE knew
         /\ estS' = IF tested THEN te.est ELSE estS
         /\ error_k' = IF tested THEN MAX(error_k, te.erk) ELSE error_k
         /\ error_km1' = IF tested /\ kk > 1 THEN MAX(error_km1, te.erkm1) ELSE error_km1
         /\ IF tryAgain
            THEN /\ pc' = "stgr_again" /\ UNCHANGED nflag
                 /\ hist' = [hist EXCEPT !.nls.recov = retval > 0]
            ELSE IF retval # IDA_SUCCESS
            THEN Budget /\ FailAt("failS", retval, NewtonCause(ls, conv, "resS"),
                                  NewtonVal(ls, conv, sr))
            ELSE IF tested /\ te.flag # IDA_SUCCESS
            THEN Budget /\ FailAt("failS", te.flag, "etest", te.flag)
            ELSE /\ pc' = "complete" /\ UNCHANGED nflag
                 /\ hist' = [hist EXCEPT !.passed = @ \cup {"nlsS"}
                                                     \cup (IF tested THEN {"etestS"} ELSE {}),
                                         !.nls = NoNls]
  /\ UNCHANGED <<lifeVars, opt, SetupDone, nst, tn, hh, hused, kk, kused, ns, phase,
                 psi, alpha, beta, sigma, gamma, phi, phiQ, phiS, cj, cjold, cjratio, cjlast,
                 rr, ewt, ewtQ, ewtS, ee, eeQ, forceSetup, tretp, epsNewt, toldel,
                 argVars, saved_t, ck, est, estQ, erk, erkm1, ncf, nef,
                 callSetup, pass, pre>>

(***************************************************************************)
(* IDACompleteStep, and the nstloc++ of IDASolve that follows IDAStep.     *)
(***************************************************************************)
RECURSIVE SumFrom(_, _, _)
SumFrom(arr, j, k) == IF j > k THEN ZERO ELSE RAdd(arr[j], SumFrom(arr, j + 1, k))

\* the history array after "save ee" (when saved) and "update phi arrays"
CompletePhi(arr, e, saved) ==
  LET a1 == IF saved /\ kk < maxord THEN [arr EXCEPT ![kk + 1] = e] ELSE arr
  IN  [j \in Ord |-> IF j <= kk THEN RAdd(SumFrom(a1, j, kk), e) ELSE a1[j]]

CompletePhase == IF knew = kk - 1 \/ kk = maxord THEN 1 ELSE phase

ErrQ_kp1(e0) ==
  IF errconQ
  THEN MAX(e0, RDiv(IDAWrmsNorm(RSub(eeQ, phiQ[kk + 1]), ewtQ), RInt(kk + 2)))
  ELSE e0
ErrS_kp1(e1) ==
  IF errconS
  THEN MAX(e1, RDiv(IDAWrmsNorm(RSub(eeS, phiS[kk + 1]), ewtS), RInt(kk + 2)))
  ELSE e1
Error_kp1 ==
  ErrS_kp1(ErrQ_kp1(RDiv(IDAWrmsNorm(RSub(ee, phi[kk + 1]), ewt), RInt(kk + 2))))

\* the order decision from terk, terkp1, terkm1
OrderActionOf(terk, terkp1, terkm1) ==
  IF knew = kk - 1 THEN LOWER
  ELSE IF kk = maxord THEN MAINTAIN
  ELSE IF kk + 1 >= ns \/ kk - kused = 1 THEN MAINTAIN
  ELSE IF kk = 1 THEN (IF RGe(terkp1, RMul(HALF, terk)) THEN MAINTAIN ELSE RAISE)
  ELSE IF RLe(terkm1, MIN(terk, terkp1)) THEN LOWER
  ELSE IF RGe(terkp1, terk) THEN MAINTAIN
  ELSE RAISE

OrderAction ==
  OrderActionOf(RMul(RInt(kk + 1), error_k), RMul(RInt(kk + 2), Error_kp1),
                RMul(RInt(kk), error_km1))

Phase1K(action) ==
  IF action = RAISE THEN kk + 1 ELSE IF action = LOWER THEN kk - 1 ELSE kk
Phase1Est(action) ==
  IF action = RAISE THEN Error_kp1 ELSE IF action = LOWER THEN error_km1 ELSE error_k

\* kk, rr and hh as the phase-1 branch leaves them, for the new order k1 and
\* the ratio r that RPowerR returned
Phase1Step(k1, r) ==
  LET h2 == RMul(TWO, hh)
      temp == RMul(ABS(h2), hmax_inv)
  IN  IF RGe(r, TWO)
      THEN [kk |-> k1, rr |-> r, hh |-> IF RGt(temp, ONE) THEN RDiv(h2, temp) ELSE h2]
      ELSE IF RLe(r, ONE)
      THEN [kk |-> k1, rr |-> Clamp(HALF, PT9, r), hh |-> RMul(hh, Clamp(HALF, PT9, r))]
      ELSE [kk |-> k1, rr |-> r, hh |-> hh]

Phase1Of(action) ==
  Phase1Step(Phase1K(action),
             PowNegRoot(RAdd(RMul(TWO, Phase1Est(action)), PT0001), Phase1K(action) + 1))

Phase1 == Phase1Of(OrderAction)

\* phase 0: after the first step the order is raised and the step doubled
Phase0OrderKept(n) ==
  [kk |-> kk, rr |-> rr, hh |-> IF n > 1 THEN RMul(TWO, hh) ELSE hh]
Phase0(n) ==
  [kk |-> IF n > 1 THEN kk + 1 ELSE kk, rr |-> rr,
   hh |-> IF n > 1 THEN RMul(TWO, hh) ELSE hh]

IDACompleteStep(ph) ==
  /\ pc = "complete"
  /\ nst' = nst + 1 /\ nstloc' = nstloc + 1
  /\ kused' = kk /\ hused' = hh
  /\ phase' = CompletePhase
  /\ kk' = ph.kk /\ hh' = ph.hh /\ rr' = ph.rr
  /\ phi' = CompletePhi(phi, ee, TRUE)
  /\ phiQ' = IF quad THEN CompletePhi(phiQ, eeQ, errconQ) ELSE phiQ
  /\ phiS' = IF sensi THEN CompletePhi(phiS, eeS, errconS) ELSE phiS
  /\ pc' = "stop2"
  /\ hist' = [hist EXCEPT !.hs = <<hh>> \o @,   \* the steps' sizes, the last one first
                          !.passed = {}]
  /\ UNCHANGED <<lifeVars, opt, SetupDone, tn, knew, ns, psi, alpha, beta, sigma, gamma,
                 cj, cjold, cjratio, cjlast, ewt, ewtQ, ewtS, ee, eeQ, eeS, forceSetup, tretp,
                 epsNewt, toldel, calls, tout, itask, ret, tret, yret,
                 stepVars, pre>>

CompleteStep == IDACompleteStep(IF CompletePhase = 0 THEN Phase0(nst + 1) ELSE Phase1)

(***************************************************************************)
(* IDAStopTest2 and the end of the step loop of IDASolve.                  *)
(***************************************************************************)
StopTest2 ==
  /\ pc = "stop2"
  /\ LET out == IDAStopTest2(tout, itask, tretp, tret)
     IN  /\ hh' = out.hh
         /\ IF out.code = CONTINUE_STEPS
            THEN pc' = "loop" /\ UNCHANGED <<ret, tret, tretp, yret>>
            ELSE Return(out.code, out.tret, out.tretp, out.yret)
  /\ UNCHANGED <<lifeVars, opt, SetupDone, nst, tn, hused, kk, kused, knew, ns, phase,
                 psi, alpha, beta, sigma, gamma, phi, phiQ, phiS, cj, cjold, cjratio, cjlast,
                 rr, ewt, ewtQ, ewtS, ee, eeQ, eeS, forceSetup, epsNewt, toldel,
                 calls, tout, itask, nstloc, stepVars, pre, hist>>

Next ==
  \/ \E code \in MallocRets : IDAMalloc(code)
  \/ IDAReInit
  \/ IDAQuadMalloc
  \/ IDAQuadReInit
  \/ \E newism \in Isms, ok \in BOOLEAN : IDASensMalloc(newism, ok)
  \/ \E newism \in Isms, ok \in BOOLEAN : IDASensReInit(newism, ok)
  \/ IDAQuadFreeCall
  \/ IDASensFreeCall
  \/ IDAFree
  \/ SetForceSetup
  \/ \E t \in GSTimes : IDAGetSolutionCall(t)
  \/ \E to \in Touts, task \in Itasks, lin \in LinitRets, rq \in RhsQVals :
       IDASolve(to, task, lin, rq)
  \/ LoopTop
  \/ IDASetCoeffs
  \/ \E r \in ResRets, sr \in SensRets : IDANlsRes(r, sr)
  \/ \E l \in LsRets : IDANlsSetup(l)
  \/ \E x \in NewtonEnds : IDANlsNewton(x[1], x[2], x[3], x[4], x[5])
  \/ StateTest
  \/ \E g \in EstGarbage, kg \in KnewGarbage : StepFail(g, kg)
  \/ \E rq \in RhsQVals : QuadStep(rq)
  \/ CompleteStep
  \/ StopTest2
  \/ \E r0 \in ResRets, sr \in SensRets : StgrRes(r0, sr)
  \/ \E l \in LsRets : StgrSetup(l)
  \/ \E x \in StgrEnds : StgrNewton(x[1], x[2], x[3], x[4])

Spec == Init /\ [][Next]_vars

(***************************************************************************)
(* The runs of one problem at each maximum order, up to MaxNst steps in a  *)
(* call. The steps of IDASolve between its entry and its return are        *)
(* sequential code that waits for nothing: once a call is under way, its   *)
(* next step is taken. The user's calls carry no such obligation.          *)
(* A step of NextLive from a position inside the call is a step of InCall  *)
(* and changes pc, so that the fairness condition is written on the change *)
(* of pc. It is asked where the model has a next step at every position:   *)
(* in the runs without a failed attempt, up to MaxNst steps.               *)
(***************************************************************************)
LiveConfigs == {[Opt0 EXCEPT !.maxord = k, !.mxstep = MaxNst] : k \in 1..MaxOrd}
InitLive == Init /\ opt \in LiveConfigs

InCall ==
  \/ LoopTop
  \/ IDASetCoeffs
  \/ \E r \in ResRets, sr \in SensRets : IDANlsRes(r, sr)
  \/ \E l \in LsRets : IDANlsSetup(l)
  \/ \E x \in NewtonEnds : IDANlsNewton(x[1], x[2], x[3], x[4], x[5])
  \/ StateTest
  \/ \E g \in EstGarbage, kg \in KnewGarbage : StepFail(g, kg)
  \/ CompleteStep
  \/ StopTest2

NextLive ==
  \/ \E code \in MallocRets : IDAMalloc(code)
  \/ \E to \in Touts, task \in Itasks, lin \in LinitRets, rq \in RhsQVals :
       IDASolve(to, task, lin, rq)
  \/ InCall

LivePcs == {"loop", "coeffs", "nls", "nls_setup", "nls_newton", "test", "fail", "complete",
            "stop2"}
Followed == hist.fails = 0 /\ ~(pc = "loop" /\ ~WorkExceeded /\ nst >= MaxNst)
CallMoves == pc \in LivePcs /\ Followed /\ pc' \in LivePcs \cup {"idle"}

SpecLive == InitLive /\ [][NextLive]_vars /\ WF_pc(CallMoves)

(***************************************************************************)
(* Properties.                                                             *)
(***************************************************************************)
TstopModes == {IDA_NORMAL_TSTOP, IDA_ONE_STEP_TSTOP}
FailPcs == {"fail", "failQ", "failS"}
\* a step attempt is under way: hh is the step size it uses
InAttempt == pc \notin ({"idle", "loop", "stop2"} \cup FailPcs)
\* a failed attempt has been handled and the next attempt is about to begin
Retrying == pc = "coeffs" /\ ncf + nef > 0

\* C1: in the TStop modes, with tstop ahead of t0 in the direction of
\* integration, tn never lies beyond tstop, during an attempt or after a step.
C1_NeverPastTstop ==
  (calls > 0 /\ itask \in TstopModes /\ tstopset /\ ProdPos(RSub(tstop, t0), hh))
    => ~ProdPos(RSub(tn, tstop), hh)

\* C2: a call never completes more than mxstep steps; at the top of the step
\* loop with mxstep steps completed the call returns IDA_TOO_MUCH_WORK with
\* *tret = tn and yret holding the solution at tn, and it returns that code in
\* no other case.
C2_StepBudget ==
  [][/\ nstloc' <= mxstep
     /\ (pc = "loop" /\ nstloc = mxstep) =>
          (pc' = "idle" /\ ret' = IDA_TOO_MUCH_WORK /\ tn' = tn /\ tret' = tn
           /\ yret' = Stepped(tn))
     /\ (pc # "idle" /\ pc' = "idle" /\ ret' = IDA_TOO_MUCH_WORK) =>
          (pc = "loop" /\ nstloc = mxstep)]_vars

C2_Witness == pc = "idle" /\ ret = IDA_TOO_MUCH_WORK /\ nstloc = mxstep /\ nst > 0

\* C3: a positive value returned by res makes the attempt a recoverable
\* residual failure: ncf is incremented, nef is not, the step size shrinks and
\* the step is retried, or ends with IDA_REP_RES_ERR when ncf reaches maxncf.
C3_PositiveResidualRecoverable ==
  [][(pc = "fail" /\ hist.cause = "res" /\ hist.val > 0) =>
       /\ ncf' = ncf + 1 /\ nef' = nef
       /\ RLt(ABS(hh'), ABS(hh))
       /\ \/ pc' = "coeffs"
          \/ pc' = "idle" /\ ret' = IDA_REP_RES_ERR]_vars

\* C4: a negative value returned by res ends the call with IDA_RES_FAIL,
\* without another attempt.
C4_NegativeResidualFatal ==
  [][(pc = "fail" /\ hist.cause = "res" /\ hist.val < 0) =>
       (pc' = "idle" /\ ret' = IDA_RES_FAIL)]_vars

\* C5: a recoverable corrector failure is retried while ncf stays below
\* maxncf; the maxncf-th one ends the step with IDA_CONV_FAIL,
\* IDA_REP_RES_ERR or IDA_CONSTR_FAIL.
CorrectorCauses == {"res", "resS", "lsetup", "lsolve", "nconv", "constr"}
C5_ConvFailBudget ==
  [][(pc \in FailPcs /\ hist.cause \in CorrectorCauses /\ hist.val > 0) =>
       IF ncf + 1 < maxncf
       THEN pc' = "coeffs" /\ ncf' = ncf + 1
       ELSE pc' = "idle" /\ ret' \in {IDA_CONV_FAIL, IDA_REP_RES_ERR, IDA_CONSTR_FAIL}]_vars

\* C6: an error test failure is retried while fewer than maxnef of them have
\* occurred in the step; the maxnef-th one returns IDA_ERR_FAIL.
C6_ErrFailBudget ==
  [][(pc \in FailPcs /\ hist.cause = "etest") =>
       IF nef + 1 < maxnef
       THEN pc' = "coeffs" /\ nef' = nef + 1
       ELSE pc' = "idle" /\ ret' = IDA_ERR_FAIL]_vars

\* C7: when a failed attempt has been handled, tn, psi, phi, phiQ and phiS
\* are what they were before that attempt's IDASetCoeffs.
C7_RestoreIdentity ==
  Retrying => /\ tn = pre.tn /\ psi = pre.psi /\ phi = pre.phi
              /\ phiQ = pre.phiQ /\ phiS = pre.phiS

\* C8: a negative value returned by lsetup or lsolve, in any corrector, ends
\* the call with IDA_LSETUP_FAIL or IDA_LSOLVE_FAIL, without another attempt.
C8_LinearSolverFatal ==
  [][(pc \in FailPcs /\ hist.cause \in {"lsetup", "lsolve"} /\ hist.val < 0) =>
       /\ pc' = "idle"
       /\ ret' = IF hist.cause = "lsetup" THEN IDA_LSETUP_FAIL ELSE IDA_LSOLVE_FAIL]_vars

\* C9: during every step attempt |hh| * hmax_inv <= 1 when hmax_inv > 0.
C9_StepBelowHmax ==
  (InAttempt /\ RGt(hmax_inv, ZERO)) => RLe(RMul(ABS(hh), hmax_inv), ONE)

\* C10: a call in normal mode that returns IDA_SUCCESS has tn at or beyond
\* tout, *tret = tout, and yret written with the solution at tout.
C10_NormalReturn ==
  (pc = "idle" /\ calls > 0 /\ itask = IDA_NORMAL /\ ret = IDA_SUCCESS) =>
    /\ ProdNonNeg(RSub(tn, tout), hh)
    /\ tret = tout
    /\ \/ yret = Interp(tout)
       \/ tout = tn /\ yret = Stepped(tn)

\* C11: a call in one-step mode that returns IDA_SUCCESS has completed exactly
\* one internal step, returns *tret = tn, and leaves in yret what the step
\* computed at tn (IDAGetSolution has not written it).
C11_OneStepReturn ==
  (pc = "idle" /\ calls > 0 /\ itask = IDA_ONE_STEP /\ ret = IDA_SUCCESS) =>
    /\ nstloc = 1
    /\ tret = tn /\ tretp = tn
    /\ yret = Stepped(tn)

\* a second one-step call has returned after its one step
C11_Witness ==
  /\ pc = "idle" /\ calls = 2 /\ itask = IDA_ONE_STEP /\ ret = IDA_SUCCESS
  /\ nstloc = 1 /\ nst = 2

\* C12: in IDA_NORMAL_TSTOP mode with tstop ahead of t0 and tout beyond tstop,
\* a call that ends without a failure returns IDA_TSTOP_RETURN with
\* *tret = tstop, the solution at tstop in yret, and tn at tstop (within the
\* round-off fuzz of the stop test, never beyond it): the last step was clipped
\* to end there.
ToutBeyondTstop == ProdPos(RSub(tout, tstop), hh) /\ ProdPos(RSub(tstop, t0), hh)
C12_TstopReached ==
  (/\ pc = "idle" /\ calls > 0 /\ itask = IDA_NORMAL_TSTOP /\ tstopset
   /\ ToutBeyondTstop /\ ret \in {IDA_SUCCESS, IDA_TSTOP_RETURN}) =>
    /\ ret = IDA_TSTOP_RETURN
    /\ tret = tstop /\ yret = Interp(tstop)
    /\ NearTstop /\ ~ProdPos(RSub(tn, tstop), hh)

\* C13: an IDASolve call on an instance on which no IDAMalloc call has returned
\* IDA_SUCCESS returns IDA_NO_MALLOC and changes nothing in the integrator
\* memory: no initial setup, no step attempt, no step.
C13_NoMalloc ==
  [][(mallocRet # IDA_SUCCESS /\ calls' = calls + 1) =>
       /\ ret' = IDA_NO_MALLOC /\ pc' = "idle"
       /\ UNCHANGED <<memVars, stepVars>>]_vars

\* IDASolve has returned IDA_NO_MALLOC after an IDAMalloc call that failed
C13_Witness ==
  /\ pc = "idle" /\ calls > 0 /\ ret = IDA_NO_MALLOC
  /\ mallocRet = IDA_MEM_FAIL /\ ~SetupDone /\ nst = 0

\* C14: the ladder of error test failures within one step. Handling the first
\* failure keeps the order or lowers it by one and multiplies hh by
\* rr = 0.9 * (2 est + 0.0001)^(-1/(kk+1)) clamped to [0.25, 0.9], est being the
\* estimate of the test that failed; the second makes the same order decision
\* and multiplies hh by 0.25; the third and later ones that leave the count
\* below maxnef set the order to 1 and multiply hh by 0.25.
FailedEst == IF pc = "fail" THEN est ELSE IF pc = "failQ" THEN estQ ELSE estS
LadderFactor(k) ==
  Clamp(QUARTER, PT9, RMul(PT9, PowNegRoot(RAdd(RMul(TWO, FailedEst), PT0001), k + 1)))
C14_ErrorTestLadder ==
  [][(pc \in FailPcs /\ nflag = ERROR_TEST_FAIL /\ pc' # pc) =>
       CASE nef = 0 ->
              /\ kk' \in {kk, kk - 1} /\ kk' >= 1
              /\ FailedEst # Unset
              /\ hh' = RMul(hh, LadderFactor(kk'))
         [] nef = 1 ->
              /\ kk' \in {kk, kk - 1} /\ kk' >= 1
              /\ hh' = RMul(hh, QUARTER)
         [] nef >= 2 /\ nef + 1 < maxnef ->
              /\ kk' = 1
              /\ hh' = RMul(hh, QUARTER)
         [] OTHER -> TRUE]_vars

\* C15: when a step ends because its convergence retries are used up, the code
\* returned is that of the kind of recoverable failure that made up most of the
\* step's failures: IDA_REP_RES_ERR for recoverable residual failures,
\* IDA_CONSTR_FAIL for constraint failures, IDA_CONV_FAIL for the others.
KindCount(S) == Cardinality({i \in 1..Len(hist.kinds) : hist.kinds[i] \in S})
OtherKinds == {IDA_LSETUP_RECVR, IDA_LSOLVE_RECVR, IDA_NCONV_RECVR}
C15_DominantKind ==
  (/\ pc = "idle" /\ ret \in {IDA_REP_RES_ERR, IDA_CONSTR_FAIL, IDA_CONV_FAIL}
   /\ maxncf > 2 /\ Len(hist.kinds) = maxncf) =>
    /\ 2 * KindCount({IDA_RES_RECVR}) > maxncf => ret = IDA_REP_RES_ERR
    /\ 2 * KindCount({IDA_CONSTR_RECVR}) > maxncf => ret = IDA_CONSTR_FAIL
    /\ 2 * KindCount(OtherKinds) > maxncf => ret = IDA_CONV_FAIL

\* C20: once the initial setup has succeeded, and so during every step attempt
\* and after every completed step, the error weight ewt is strictly positive;
\* during every step attempt and after every completed step so are ewtQ and
\* ewtS where the quadratures or the sensitivities take part in the error
\* control.
Positive(w) == w[1] > 0 /\ w[2] > 0
C20_PositiveWeights ==
  /\ (SetupDone \/ nst > 0 \/ InAttempt \/ pc \in FailPcs) => Positive(ewt)
  /\ (nst > 0 \/ InAttempt \/ pc \in FailPcs) =>
       /\ errconQ => Positive(ewtQ)
       /\ sensi => Positive(ewtS)

\* after a completed step the tolerance at the new phi[0] is not positive: the
\* reset is refused with IDA_ILL_INPUT and ewt keeps its positive value
C20_Witness ==
  /\ pc = "idle" /\ ret = IDA_ILL_INPUT /\ nst > 0 /\ nstloc > 0
  /\ ~IDAEwtSetOK(phi[0]) /\ Positive(ewt)

\* C19: with sensitivities computed by the Staggered1 corrector and a
\* sensitivity residual of the all-at-once form, IDASolve is never past its
\* input checks: no step attempt is made and no step completed in that
\* combination, whether IDASensMalloc or IDASensReInit set ism.
C19_Staggered1NeedsOneSens ==
  (sensi /\ ism = IDA_STAGGERED1 /\ iresS = IDA_ALLSENS) => pc = "idle"

\* C16: once IDAFree has run, every block the integrator allocated has been
\* freed exactly once: no block is still allocated, none was lost when its
\* pointer was assigned again, and free was never handed a pointer that does
\* not point to an allocated block.
C16_FreesEverythingOnce ==
  mem.freed =>
    \A b \in Blocks : heap[b].ptr # "valid" /\ ~heap[b].leaked /\ ~heap[b].bad

\* C17: whenever IDASensRes1DQ has returned, with 0 or with the value of a
\* failing residual call, p[which] has the value it had at entry.
C17_ParameterRestored == dq.pc = "done" => p = dq.psave

\* C18: with a negative plist entry IDASensRes1DQ, whatever the method, never
\* changes p[which] and evaluates res at no other parameter value than the one
\* at entry.
C18_SkipsParameterPerturbation ==
  (dq.pc \in {"res1", "res2", "res3", "res4", "done"} /\ dq.skipFP) =>
    (p = dq.psave /\ dqlog \subseteq {dq.psave})

\* C21: whenever a step begins, ewtQ (with quadratures active) and ewtS (with
\* sensitivities active) are the weights of the current phiQ[0] and phiS[0],
\* with errconQ / errconS on or off: they are set by the initial setup and
\* refreshed at the top of every step.
C21_WeightsMaintained ==
  [][(pc = "loop" /\ pc' = "coeffs") =>
       /\ quad => ewtQ' = IDAEwtSet(phiQ[0])
       /\ sensi => ewtS' = IDAEwtSet(phiS[0])]_vars

\* C22: during every step attempt and after every completed step the order
\* satisfies 1 <= kk <= maxord.
C22_OrderInRange ==
  (InAttempt \/ pc \in FailPcs \/ nst > 0) => (1 <= kk /\ kk <= maxord)

\* C23: when a step has just been completed, psi[0] is the size of that step
\* and, for every j from 1 to kused for which j earlier steps exist, psi[j] -
\* psi[j-1] is the size of the j-th most recent earlier step: psi[j] is the sum
\* of the last j+1 step sizes, whatever attempts failed before the step.
RECURSIVE SumSteps(_)
SumSteps(n) == IF n = 0 THEN ZERO ELSE RAdd(SumSteps(n - 1), hist.hs[n])
DecidedOrder(terk, terkp1, terkm1) ==
  IF kk = 1 THEN (IF RGe(terkp1, RMul(HALF, terk)) THEN 1 ELSE 2)
  ELSE IF RLe(terkm1, MIN(terk, terkp1)) THEN kk - 1
  ELSE IF RGe(terkp1, terk) THEN kk
  ELSE kk + 1

\* C24: a successful step below the maximum order leaves the order the rule
\* names: at order 1 it is raised to 2 unless terkp1 >= terk/2; otherwise it
\* is lowered if terkm1 <= min(terk, terkp1), kept if terkp1 >= terk, and
\* raised in every other case.
C24_OrderDecision ==
  [][(pc = "complete" /\ pc' = "stop2" /\ kk < maxord) =>
       kk' = DecidedOrder(RMul(RInt(kk + 1), error_k), RMul(RInt(kk + 2), Error_kp1),
                          RMul(RInt(kk), error_km1))]_vars


\* cj/cjold lies outside [(1 - 1/4)/(1 + 1/4), (1 + 1/4)/(1 - 1/4)] = [3/5, 5/3]
OutsideBand ==
  RLt(RDiv(cj, cjold), <<3, 5>>) \/ RGt(RDiv(cj, cjold), <<5, 3>>)
\* one of the four reasons for a setup holds as the corrector is about to solve
SetupDue == nst = 0 \/ pass = 1 \/ forceSetup \/ OutsideBand

\* C25: with a setup routine attached, the corrector of an attempt never goes
\* from the residual at the predicted point to its first linear solve without
\* a call of lsetup when no step has completed yet, when cj/cjold is outside
\* [3/5, 5/3], when forceSetup is set, or when the preceding pass of the
\* attempt failed recoverably with old Jacobian data; and the call of lsetup
\* leaves forceSetup cleared and cjratio = 1.
C25_SetupWhenDue ==
  [][/\ (pc = "nls" /\ pc' = "nls_newton" /\ setupNonNull) => ~SetupDue
     /\ pc = "nls_setup" => (~forceSetup' /\ cjratio' = ONE)]_vars
\* lsetup is about to be called on the first pass of an attempt after the
\* first step, with cj/cjold inside the band, because forceSetup is set
C25_Witness ==
  pc = "nls_setup" /\ nst > 0 /\ pass = 0 /\ forceSetup /\ ~OutsideBand

\* t lies outside the last step [tn - hused, tn] by more than the fuzz
\* 100 uround (|tn| + |hh|)
OutsideLastStep(t) ==
  LET fuzz == RMul(RMul(HUNDRED, uround), RAdd(ABS(tn), ABS(hh)))
      lo == MIN(RSub(tn, hused), tn)
      hi == MAX(RSub(tn, hused), tn)
  IN  RLt(t, RSub(lo, fuzz)) \/ RGt(t, RAdd(hi, fuzz))

\* C26: a call of IDAGetSolution with t outside [tn - hused, tn] by more than
\* the round-off fuzz, before the step or beyond tn, returns IDA_BAD_T and
\* does not write the interpolant into the vector of the call.
C26_BadTOutsideLastStep ==
  (gs.pc = "done" /\ OutsideLastStep(gs.t)) =>
    (gs.ret = IDA_BAD_T /\ gs.y # Interp(gs.t))


\* C27: between one IDAMalloc or IDAReInit and the next, linit is called once
\* at most whatever the calls of IDASolve return, and it has been called once
\* when the first step is attempted.
C27_LinitOnce ==
  /\ mem.linits <= 1
  /\ (MallocDone /\ (pc # "idle" \/ nst > 0)) => mem.linits = 1


\* the values the header of IDASolve documents
DocumentedReturns ==
  {IDA_SUCCESS, IDA_TSTOP_RETURN, IDA_ILL_INPUT, IDA_TOO_MUCH_WORK, IDA_MEM_NULL,
   IDA_TOO_MUCH_ACC, IDA_CONV_FAIL, IDA_LSETUP_FAIL, IDA_LSOLVE_FAIL, IDA_CONSTR_FAIL,
   IDA_ERR_FAIL, IDA_REP_RES_ERR, IDA_RES_FAIL}

\* C28: on an allocated memory every call of IDASolve returns one of the
\* documented values, whatever res, the sensitivity residual, lsetup and
\* lsolve return.
C28_DocumentedReturns ==
  (pc = "idle" /\ calls > 0 /\ MallocDone) => ret \in DocumentedReturns

\* C29: from the top of the step loop in the starting phase, with no attempt
\* failed so far, the order reaches maxord, unless an attempt fails, the error
\* test of a step indicates the order below (knew = kk - 1), or the call
\* returns with fewer than maxord steps taken.
C29_ReachesMaxOrder ==
  (pc = "loop" /\ phase = 0 /\ hist.fails = 0)
    ~> \/ kk = maxord
       \/ hist.fails > 0
       \/ pc = "complete" /\ knew = kk - 1
       \/ pc = "idle" /\ nst < maxord
\* the third step of a run without a failed attempt has brought the order to 3
C29_Witness ==
  /\ pc = "stop2" /\ kk = maxord /\ maxord = MaxOrd /\ nst = MaxOrd /\ hist.fails = 0
  /\ kused = MaxOrd - 1

(***************************************************************************)
(* C30: a step is committed (IDACompleteStep runs and nst goes up by one)  *)
(* only if, in that same attempt, the corrector of the state variables     *)
(* returned success, the local error test ck * ||e|| <= 1 of the state     *)
(* variables passed, the error test of the quadratures passed when errconQ *)
(* is on, and the staggered corrector of the sensitivities converged, and  *)
(* passed its error test when errconS is on.  An attempt in which one of   *)
(* these failed goes to the restore, and from there to a new attempt or to *)
(* the return of IDASolve with a failure flag; it never commits.           *)
(***************************************************************************)
RequiredToCommit ==
  {"nls", "etest"}
    \cup (IF quad /\ errconQ THEN {"etestQ"} ELSE {})
    \cup (IF sensi_stgr \/ sensi_stgr1 THEN {"nlsS"} ELSE {})
    \cup (IF (sensi_stgr \/ sensi_stgr1) /\ errconS THEN {"etestS"} ELSE {})

TestsHoldNow ==
  /\ nflag = IDA_SUCCESS
  /\ RLe(RMul(ck, StateNorm(ee, eeS)), ONE)
  /\ (quad /\ errconQ) => RLe(RMul(ck, IDAWrmsNorm(eeQ, ewtQ)), ONE)
  /\ ((sensi_stgr \/ sensi_stgr1) /\ errconS) => RLe(RMul(ck, IDAWrmsNorm(eeS, ewtS)), ONE)

C30_CommitOnlyAfterAllTests ==
  [][/\ (pc = "complete" /\ pc' # "complete")
          => (nst' = nst + 1 /\ RequiredToCommit \subseteq hist.passed /\ TestsHoldNow)
     /\ (nst' # nst /\ MallocDone /\ nst' # 0) => pc = "complete"
     /\ pc \in FailPcs
          => /\ nst' = nst /\ tn' = saved_t
             /\ pc' \in {"coeffs", "idle"}
             /\ pc' = "idle" => ret' < 0
     /\ (pc' \in FailPcs /\ pc \notin FailPcs)
          => (pc \in {"nls_newton", "nls", "nls_setup", "test", "quad", "stgr",
                      "stgr_setup", "stgr_newton", "stgr_again"} /\ nflag' # IDA_SUCCESS)]_vars

C30_Witness ==
  /\ pc = "complete" /\ hist.fails > 0 /\ hist.step = nst
  /\ quad /\ errconQ /\ ee # ZERO
  /\ hist.passed = {"nls", "etest", "etestQ"}


\* the attempts IDAStep has begun in the current step: the one under way and
\* those that failed and were tried again
Attempts == ncf + nef + 1

\* C31: IDAStep begins at most (maxncf - 1) + (maxnef - 1) + 1 attempts before
\* the step is committed or a failure is returned, whatever the order of the
\* convergence failures and the error test failures.
C31_AttemptBound ==
  InAttempt => Attempts <= (maxncf - 1) + (maxnef - 1) + 1


\* C32: IDAStep is entered with saved_t = tn and keeps saved_t; it ends either
\* with a completed step, nst one higher and tn beyond its value at entry by
\* exactly the hused of the step, or with a failure, nst unchanged and tn at
\* its value at entry; IDASolve then returns a failure flag with *tret = tn.
C32_StepOrNothing ==
  [][/\ (pc = "loop" /\ pc' = "coeffs") => (saved_t' = tn /\ nst' = nst /\ tn' = tn)
     /\ (InAttempt \/ pc \in FailPcs) => saved_t' = saved_t
     /\ (InAttempt /\ pc # "complete") => nst' = nst
     /\ (pc = "complete" /\ pc' # "complete")
          => (nst' = nst + 1 /\ tn' = RAdd(saved_t, hused') /\ hused' # ZERO)
     /\ (pc \in FailPcs /\ pc' = "idle")
          => (nst' = nst /\ tn' = saved_t /\ tret' = tn' /\ ret' < 0)
     /\ (pc \in FailPcs /\ pc' # "idle") => (nst' = nst /\ tn' = saved_t)]_vars

\* a step failed for good after a completed one: the time reported is that of
\* the completed step
C32_Witness ==
  /\ pc = "idle" /\ calls > 0 /\ nst = 1 /\ hist.fails > 0 /\ hist.step = 1
  /\ ret \in {IDA_CONV_FAIL, IDA_ERR_FAIL, IDA_REP_RES_ERR}
  /\ tn = RAdd(t0, hused) /\ tret = tn /\ hh # hused


\* C33: in one call of a corrector (IDANls, IDAStgrNls, IDAStgr1Nls) the main
\* loop is passed at most twice and lsetup is called at most once; the second
\* pass begins only after a first pass that ended with a recoverable failure
\* and without a call of lsetup.
C33_TwoPassesOneSetup ==
  /\ hist.nls.passes <= 2 /\ hist.nls.setups <= 1
  /\ (hist.nls.passes >= 1 /\ pc \in {"nls", "stgr_again"})
       => (hist.nls.passes = 1 /\ hist.nls.recov /\ hist.nls.setups = 0)
  /\ hist.nls.passes = 2 => hist.nls.recov

\* the second pass of the staggered corrector, after its call of lsetup
C33_Witness ==
  /\ pc = "stgr_newton" /\ hist.nls.passes = 2 /\ hist.nls.setups = 1 /\ nst > 0


\* C34: a completed step raises the order only if kk < maxord, the preceding
\* step did not change the order (kk = kused), and ns = kk + 2 consecutive
\* steps have been taken with the same step size and order.
C34_RaiseAfterConstantSteps ==
  [][(pc = "complete" /\ pc' = "stop2" /\ kk' > kk)
       => (kk < maxord /\ kk = kused /\ ns >= kk + 2)]_vars


\* C35: after a call of lsetup has returned a failure, recoverable or not,
\* lsolve is not called (the Newton iteration of no corrector is entered)
\* before a later call of lsetup has returned success.
C35_NoSolveAfterFailedSetup ==
  pc \in {"nls_newton", "stgr_newton"} => ~hist.lsbad


\* C36: between an IDAMalloc or IDAReInit and the next one, phi[1], phiQ[1]
\* and phiS[1] are scaled by the initial step size once, however many calls of
\* IDASolve are made while nst = 0.
C36_ScaledOnce ==
  MallocDone => mem.scalings <= 1


\* C37: IDAQuadReInit and IDASensReInit succeed only while the quadrature /
\* sensitivity vectors are allocated; after IDAQuadFree / IDASensFree they
\* return IDA_NO_QUAD / IDA_NO_SENS and write nothing into released memory.
C37_NoReInitAfterFree ==
  ~mem.stale


\* the vectors of IDASensAllocVectors: those of every mode, and the work
\* vectors of either family
SensVectorBlocks == {"sensVectors", "yyS", "yyS1"}

\* C38: while sensitivities are on, the work vectors of the coupling mode in
\* force are allocated (yyS, ypS, deltaS for Simultaneous and Staggered, yyS1,
\* ypS1, deltaS1 for Staggered1), whichever call selected the mode; and once
\* the memory is freed, the vectors that were allocated have been released,
\* and no others.
C38_ModeVectorsAllocated ==
  /\ (MallocDone /\ ~mem.freed /\ sensi) =>
       \A b \in SensBlocks(ism) : heap[b].ptr = "valid"
  /\ (mem.freed /\ sensi) =>
       \A b \in SensVectorBlocks : heap[b].ptr # "valid" /\ ~heap[b].bad


\* C39: every retry within a step uses a strictly smaller step than the
\* attempt that failed: when a recoverable failure (of the residual, the
\* linear solver, the convergence, the constraints or the error test) sends
\* the step back for another attempt, hh is multiplied by a factor rr with
\* 0 < rr < 1.
C39_RetryShrinks ==
  [][(pc \in FailPcs /\ pc' = "coeffs") =>
       /\ hh' = RMul(hh, rr')
       /\ RLt(ZERO, rr') /\ RLt(rr', ONE)
       /\ RLt(ABS(hh'), ABS(hh))]_vars

====
